---- MODULE Spec2Model ----
(***************************************************************************)
(* MailNinja: the inbox scan of the analyze route, the sender clustering   *)
(* and filter-suggestion functions of lib/gmail, the trusted-sender store  *)
(* of lib/store and the progress stream of the analyze and actions routes. *)
(*                                                                         *)
(* Strings are sequences of one-character strings, so that the regular     *)
(* expression tests, split("@"), split("."), toLowerCase() and the         *)
(* case-sensitive Map and Set keys of the source are computed, not assumed.*)
(***************************************************************************)
EXTENDS Integers, Sequences, FiniteSets, TLC

VARIABLES
    \* ---- the report pipeline (clusterByDomain, generateFilterSuggestions,
    \* ---- analyze route from "const messages = allMessages" on)
    messages,         \* the working set handed to the report pipeline
    stage,            \* position of the report pipeline
    existingFilters,  \* result of gmail.getFilters(): the from criteria of the filters
    trustedSenders,   \* the Set the analyze route builds from trusted-senders.json
    clusters,         \* result of clusterByDomain
    suggestions,      \* result of generateFilterSuggestions
    reportSuggestions,\* filterSuggestions after the existing-filter screen
    \* ---- lib/store
    storeFile,        \* content of trusted-senders.json
    storeCalls,       \* the lib/store calls started so far, each with its position
    trustedAtStart,   \* history: the addresses stored by completed addTrustedSenders
                      \* calls when the analyze request started
    \* ---- one request to the analyze route or to the actions route
    body,             \* the request: [action |-> "analyze"] or the ActionRequest body
    pc,               \* the await the request's start() is suspended at
    out,              \* the records enqueued on the progress stream; of a run of
                      \* progress records the stream variable keeps the last one
    streamState,      \* "readable", "closed" (controller.close()) or "cancelled"
                      \* (the consumer cancelled the stream)
    err,              \* what raised the exception that reached the catch of start()
    \* ---- locals of the scan loop of the analyze route
    allMessages,      \* ids of the working set, in collection order
    seenIds,
    totalProcessed,
    catIdx,           \* index into categories of the query being scanned
    pageToken,        \* pages of the current query already listed (0: undefined)
    consecutiveEmptyBatches,
    \* ---- locals of GmailClient.getMessages
    page,             \* response of messages.list: [len, next]
    batchStart,       \* the loop index i
    fetched,          \* messages.length
    batchResults,     \* position of the sub-batch -> Pending, Null or a message id
    \* ---- locals of the reconciliation phase of the analyze route
    accurate,         \* suggestionsWithAccurateCounts
    sIdx,             \* index of the suggestion of top10 being reconciled
    total,            \* result of the total getMessageCount of that suggestion
    lookups,          \* category -> state of its "check 1 then check full" chain
    orphans,          \* lookup chains left running by a rejected Promise.all
    clusterData,
    cIdx,             \* index of the cluster of topClusters being estimated
    \* ---- locals of the actions route
    archivedCount,
    \* ---- history
    mutations,        \* the mutating mailbox calls issued so far: filters.create
                      \* calls, batchModify calls and the longest id list of one
    matched,          \* history: <<position in top10, messages of the mailbox that
                      \* match the suggestion's query>> of each answered total lookup
    fellBack,         \* the positions in top10 and in topClusters whose lookup
                      \* failed, so that the catch of the loop body ran
    calledAfterCancel,\* a mailbox call was issued after the consumer cancelled
    catEmpty,         \* sub-batches of the current category completed so far while
                      \* none of them added a message (capped at FatigueLimit; -1
                      \* once one of the first FatigueLimit added a message)
    fetchFailed,      \* a messages.get call of this request has failed
    lost,             \* a fetched message was missing from seenIds after its callback
    \* ---- the Dashboard component
    abortControllerRef, \* abortControllerRef.current: 0 for null, else the number
                        \* of the fetchAnalysis call that made the controller
    isLoading,
    isRefreshing,
    analysis,         \* 0 for null, else the number of the fetchAnalysis call
                      \* whose result record is displayed
    loadingStage,
    loadingStep,
    toast,            \* an error toast is displayed
    fetches           \* the fetchAnalysis calls started so far, each with the
                      \* await it is suspended at and its controller's signal

rvars == <<messages, stage, existingFilters, trustedSenders, clusters, suggestions,
           reportSuggestions>>

tvars == <<storeFile, storeCalls, trustedAtStart>>

svars == <<body, pc, out, streamState, err, allMessages, seenIds, totalProcessed, catIdx,
           pageToken, consecutiveEmptyBatches, page, batchStart, fetched, batchResults,
           accurate, sIdx, total, lookups, orphans, clusterData, cIdx, archivedCount,
           mutations, matched, fellBack, calledAfterCancel, catEmpty, fetchFailed, lost>>

dvars == <<abortControllerRef, isLoading, isRefreshing, analysis, loadingStage,
           loadingStep, toast, fetches>>

vars == <<rvars, tvars, svars, dvars>>

----------------------------------------------------------------------------
(* Strings as character sequences *)

UpperChars == <<"A","B","C","D","E","F","G","H","I","J","K","L","M",
                "N","O","P","Q","R","S","T","U","V","W","X","Y","Z">>
LowerChars == <<"a","b","c","d","e","f","g","h","i","j","k","l","m",
                "n","o","p","q","r","s","t","u","v","w","x","y","z">>

\* String.prototype.toLowerCase
toLowerCase(s) ==
    [i \in 1..Len(s) |->
        IF \E k \in 1..26 : UpperChars[k] = s[i]
        THEN LowerChars[CHOOSE k \in 1..26 : UpperChars[k] = s[i]]
        ELSE s[i]]

\* String.prototype.includes
includes(s, p) ==
    \E i \in 1..(Len(s) - Len(p) + 1) : SubSeq(s, i, i + Len(p) - 1) = p

\* /p/i.test(s) for a pattern p that is a literal; the optional trailing "s" of
\* /notifications?/, /alerts?/, /updates?/ matches the empty string, so the
\* pattern matches exactly where its stem occurs.
test(p, s) == includes(toLowerCase(s), p)

\* String.prototype.split on a one-character separator
split(s, c) ==
    LET f[i \in 0..Len(s)] ==
            IF i = 0 THEN << <<>> >>
            ELSE LET prev == f[i-1]
                 IN  IF s[i] = c THEN Append(prev, <<>>)
                     ELSE [prev EXCEPT ![Len(prev)] = Append(@, s[i])]
    IN f[Len(s)]

\* Array.prototype.join
join(parts, c) ==
    LET f[i \in 0..Len(parts)] ==
            IF i = 0 THEN <<>>
            ELSE IF i = 1 THEN parts[1]
            ELSE f[i-1] \o <<c>> \o parts[i]
    IN f[Len(parts)]

\* parts.slice(-n)
sliceLast(parts, n) ==
    IF Len(parts) <= n THEN parts ELSE SubSeq(parts, Len(parts) - n + 1, Len(parts))

\* The keys of a Map filled in the order of s: the distinct elements of s in
\* the order of their first occurrence.
KeysInOrder(s) ==
    LET f[i \in 0..Len(s)] ==
            IF i = 0 THEN <<>>
            ELSE IF \E j \in 1..(i-1) : s[j] = s[i] THEN f[i-1]
            ELSE Append(f[i-1], s[i])
    IN f[Len(s)]

\* Array.prototype.sort((a, b) => key(b) - key(a)): the stable sort by
\* descending key; k[i] is the key of s[i].
SortDesc(s, k) ==
    LET pos(i) == 1 + Cardinality({j \in 1..Len(s) : k[j] > k[i]})
                    + Cardinality({j \in 1..(i-1) : k[j] = k[i]})
    IN [p \in 1..Len(s) |-> s[CHOOSE i \in 1..Len(s) : pos(i) = p]]

\* push(...a) for each a of a list of arrays, in order
Flatten(ss) ==
    LET f[i \in 0..Len(ss)] == IF i = 0 THEN <<>> ELSE f[i-1] \o ss[i]
    IN f[Len(ss)]

Range(s) == {s[i] : i \in 1..Len(s)}

\* sum of a sequence of numbers
Sum(s) ==
    LET f[i \in 0..Len(s)] == IF i = 0 THEN 0 ELSE f[i-1] + s[i]
    IN f[Len(s)]

----------------------------------------------------------------------------
(* Classifier: isLikelyAutomated, isLikelyImportant *)

automatedPatterns == {
    <<"n","o","r","e","p","l","y">>,
    <<"n","o","-","r","e","p","l","y">>,
    <<"d","o","n","o","t","r","e","p","l","y">>,
    <<"n","o","t","i","f","i","c","a","t","i","o","n">>,
    <<"a","l","e","r","t">>,
    <<"u","p","d","a","t","e">>,
    <<"n","e","w","s","l","e","t","t","e","r">>,
    <<"m","a","r","k","e","t","i","n","g">>,
    <<"p","r","o","m","o">> }

isLikelyAutomated(sender, domain) ==
    \E pattern \in automatedPatterns : test(pattern, sender) \/ test(pattern, domain)

importantPatterns == {
    <<"s","e","c","u","r","i","t","y">>,
    <<"a","c","c","o","u","n","t">>,
    <<"s","u","p","p","o","r","t">>,
    <<"h","e","l","p">>,
    <<"s","e","r","v","i","c","e">>,
    <<"c","o","n","f","i","r","m">>,
    <<"v","e","r","i","f","y">>,
    <<"p","a","s","s","w","o","r","d">>,
    <<"r","e","s","e","t">>,
    <<"a","u","t","h">>,
    <<"l","o","g","i","n">>,
    <<"o","r","d","e","r">>,
    <<"r","e","c","e","i","p","t">>,
    <<"p","a","y","m","e","n","t">>,
    <<"b","i","l","l","i","n","g">>,
    <<"i","n","v","o","i","c","e">>,
    <<"t","r","a","n","s","a","c","t","i","o","n">>,
    <<"s","h","i","p","p","i","n","g">>,
    <<"d","e","l","i","v","e","r","y">> }

isLikelyImportant(sender) ==
    \E pattern \in importantPatterns : test(pattern, sender)

----------------------------------------------------------------------------
(* getRootDomain *)

specialTLDs == {
    <<"c","o",".","u","k">>, <<"c","o","m",".","a","u">>, <<"c","o",".","n","z">>,
    <<"c","o",".","j","p">>, <<"c","o","m",".","b","r">>, <<"c","o",".","i","n">> }

getRootDomain(domain) ==
    LET parts == split(toLowerCase(domain), ".")
    IN  IF Len(parts) >= 3 /\ join(sliceLast(parts, 2), ".") \in specialTLDs
        THEN join(sliceLast(parts, 3), ".")
        ELSE IF Len(parts) >= 2 THEN join(sliceLast(parts, 2), ".")
        ELSE domain

----------------------------------------------------------------------------
(* The mailbox's senders *)

noreplyAtMail == <<"n","o","r","e","p","l","y","@","m","a","i","l",".","x",".","c","o","m">>
resetAtAlerts == <<"r","e","s","e","t","@","a","l","e","r","t","s",".","x",".","c","o","m">>
PromoAtMail   == <<"P","r","o","m","o","@","m","a","i","l",".","x",".","c","o","m">>
bobAtX        == <<"b","o","b","@","x",".","c","o","m">>
helpAtX       == <<"h","e","l","p","@","x",".","c","o","m">>

aAtMail       == <<"a","@","m","a","i","l",".","x",".","c","o","m">>
bAtAlerts     == <<"b","@","a","l","e","r","t","s",".","x",".","c","o","m">>

\* six automated senders at one full domain: promo1@news.example.com, ...
newsDomain == <<"n","e","w","s",".","e","x","a","m","p","l","e",".","c","o","m">>

NewsSenders ==
    [k \in 1..6 |-> <<"p","r","o","m","o">> \o <<(<<"1","2","3","4","5","6">>)[k]>>
                        \o <<"@">> \o newsDomain]

\* automated senders first, then personal senders
SenderList == <<noreplyAtMail, resetAtAlerts, PromoAtMail, bobAtX, helpAtX>>

AutomatedIdx == {1, 2, 3}

senderLabels(email) ==
    IF email = noreplyAtMail THEN {"INBOX", "CATEGORY_UPDATES"}
    ELSE IF email = resetAtAlerts THEN {"INBOX", "CATEGORY_PERSONAL"}
    ELSE IF email = PromoAtMail THEN {"INBOX", "CATEGORY_PROMOTIONS"}
    ELSE IF email = bobAtX THEN {"INBOX"}
    ELSE {"INBOX", "CATEGORY_SOCIAL", "UNREAD"}

\* The EmailMessage getMessage builds for message id from sender fromEmail:
\* fromDomain is what follows the first "@"; the dates are distinct and not
\* in list order.
EmailMessage(id, fromEmail) ==
    LET parts == split(fromEmail, "@")
    IN  [ id         |-> id,
          fromEmail  |-> fromEmail,
          fromDomain |-> IF Len(parts) >= 2 THEN parts[2] ELSE <<>>,
          date       |-> (id * 7) % 61,
          labelIds   |-> senderLabels(fromEmail) ]

\* The classifier and getRootDomain on the mailbox's senders, computed once.
KnownAddresses == Range(SenderList) \cup {aAtMail, bAtAlerts} \cup Range(NewsSenders)

domainOf(fromEmail) == EmailMessage(0, fromEmail).fromDomain

Automated == [e \in KnownAddresses |-> isLikelyAutomated(e, domainOf(e))]

Important == [e \in KnownAddresses |-> isLikelyImportant(e)]

RootDomain == [d \in {domainOf(e) : e \in KnownAddresses} |-> getRootDomain(d)]

----------------------------------------------------------------------------
(* clusterByDomain *)

undefined == "undefined"

\* The category tally of processCluster and of the personal clusters:
\* the first matching label wins, INBOX alone counts as primary.
categoryOf(msg) ==
    IF "CATEGORY_PERSONAL" \in msg.labelIds THEN "primary"
    ELSE IF "CATEGORY_PROMOTIONS" \in msg.labelIds THEN "promotions"
    ELSE IF "CATEGORY_SOCIAL" \in msg.labelIds THEN "social"
    ELSE IF "CATEGORY_UPDATES" \in msg.labelIds THEN "updates"
    ELSE IF "INBOX" \in msg.labelIds THEN "primary"
    ELSE "none"

tally(msgs) ==
    [c \in {"primary", "promotions", "social", "updates"} |->
        Cardinality({i \in 1..Len(msgs) : categoryOf(msgs[i]) = c})]

fromEmails(msgs) == [i \in 1..Len(msgs) |-> msgs[i].fromEmail]

\* Mutant of senderInfo: the tally starts at 1 instead of 0, as in
\* (senderCounts.get(email) || 1) + 1.
senderInfo_CountFromOne(msgs, email) ==
    LET important == Important[email]
    IN  [ email         |-> email,
          count         |-> 1 + Cardinality({i \in 1..Len(msgs) : msgs[i].fromEmail = email}),
          shouldArchive |-> ~important,
          reason        |-> IF important THEN "May contain important account info"
                            ELSE "Looks like automated/marketing" ]

\* Mutant of senderInfo: every sender of an automated cluster is recommended
\* for archiving, the isLikelyImportant test is not consulted.
senderInfo_ArchiveAll(msgs, email) ==
    [ email         |-> email,
      count         |-> Cardinality({i \in 1..Len(msgs) : msgs[i].fromEmail = email}),
      shouldArchive |-> TRUE,
      reason        |-> "Looks like automated/marketing" ]

\* senderDetails of processCluster: one entry per key of senderCounts, in
\* insertion order, then sorted by count descending.
senderInfo(msgs, email) ==
    LET important == Important[email]
    IN  [ email         |-> email,
          count         |-> Cardinality({i \in 1..Len(msgs) : msgs[i].fromEmail = email}),
          shouldArchive |-> ~important,
          reason        |-> IF important THEN "May contain important account info"
                            ELSE "Looks like automated/marketing" ]

processCluster(msgs, domainKey, isRootGroup) ==
    LET allSenders    == KeysInOrder(fromEmails(msgs))
        isGrouped     == Len(allSenders) > 1
        entries       == [i \in 1..Len(allSenders) |-> senderInfo(msgs, allSenders[i])]
        senderDetails == SortDesc(entries, [i \in 1..Len(entries) |-> entries[i].count])
        primarySender == senderDetails[1].email
        displaySender == IF isGrouped
                         THEN IF isRootGroup THEN <<"*","@","*",".">> \o domainKey
                              ELSE <<"*","@">> \o domainKey
                         ELSE primarySender
        suggestedAction == IF Len(msgs) >= 10 THEN "filter"
                           ELSE IF Len(msgs) < 5 THEN "archive"
                           ELSE "filter"
    IN  [ domain          |-> domainKey,
          sender          |-> displaySender,
          count           |-> Len(msgs),
          messages        |-> msgs,
          suggestedAction |-> suggestedAction,
          suggestedLabel  |-> undefined,
          allSenders      |-> allSenders,
          isGrouped       |-> isGrouped,
          senderDetails   |-> senderDetails,
          metrics         |-> tally(msgs) ]

\* A cluster of personal messages of one exact sender.
personalCluster(sender, msgs) ==
    [ domain          |-> msgs[1].fromDomain,
      sender          |-> sender,
      count           |-> Len(msgs),
      messages        |-> msgs,
      suggestedAction |-> IF Len(msgs) >= 20 THEN "filter"
                          ELSE IF Len(msgs) >= 10 THEN "label"
                          ELSE "keep",
      suggestedLabel  |-> undefined,
      isGrouped       |-> FALSE,
      senderDetails   |-> << [ email         |-> sender,
                               count         |-> Len(msgs),
                               shouldArchive |-> FALSE,
                               reason        |-> "Looks like a personal sender" ] >>,
      metrics         |-> tally(msgs) ]

\* Mutant of shouldGroup: only a root with two or more full domains is
\* merged, the number of senders of a single full domain is not consulted.
shouldGroup_MultiDomainOnly(fullDomains, automated) == Len(fullDomains) > 1

\* shouldGroup of one root-domain group: two or more full domains, or one
\* full domain with five or more distinct sender addresses.
shouldGroup(fullDomains, automated) ==
    IF Len(fullDomains) > 1 THEN TRUE
    ELSE LET msgs == SelectSeq(automated, LAMBDA m : m.fromDomain = fullDomains[1])
         IN  Cardinality(Range(fromEmails(msgs))) >= 5

\* Mutant of unprocessed: processedFullDomains.add(fd) runs for every root,
\* merged or not, so no full domain is left for the second loop.
unprocessed_AllProcessed(fullDomainKeys, processedFullDomains) == <<>>

\* Mutant of unprocessed: processedFullDomains is not consulted.
unprocessed_All(fullDomainKeys, processedFullDomains) == fullDomainKeys

\* the full domains the loop over fullDomainMap still has to process
unprocessed(fullDomainKeys, processedFullDomains) ==
    SelectSeq(fullDomainKeys, LAMBDA fd : fd \notin processedFullDomains)

clusterByDomain(msgs) ==
    LET automatedMessages == SelectSeq(msgs, LAMBDA m : Automated[m.fromEmail])
        personalMessages  == SelectSeq(msgs, LAMBDA m : ~Automated[m.fromEmail])
        \* fullDomainMap: its keys in insertion order, and its value at a key
        fullDomainKeys    == KeysInOrder([i \in 1..Len(automatedMessages) |-> automatedMessages[i].fromDomain])
        fullDomainMsgs(fd) == SelectSeq(automatedMessages, LAMBDA m : m.fromDomain = fd)
        \* rootDomainGroups: its keys in insertion order, and its value at a key
        rootKeys          == KeysInOrder([i \in 1..Len(fullDomainKeys) |-> RootDomain[fullDomainKeys[i]]])
        rootGroup(root)   == SelectSeq(fullDomainKeys, LAMBDA fd : RootDomain[fd] = root)
        groupedRoots      == SelectSeq(rootKeys, LAMBDA root : shouldGroup(rootGroup(root), automatedMessages))
        processedFullDomains ==
            UNION {Range(rootGroup(groupedRoots[i])) : i \in 1..Len(groupedRoots)}
        merged(root)      == Flatten([i \in 1..Len(rootGroup(root)) |-> fullDomainMsgs(rootGroup(root)[i])])
        rootClusters      == [i \in 1..Len(groupedRoots) |->
                                processCluster(merged(groupedRoots[i]), groupedRoots[i], TRUE)]
        remaining         == unprocessed(fullDomainKeys, processedFullDomains)
        domainClusters    == [i \in 1..Len(remaining) |->
                                processCluster(fullDomainMsgs(remaining[i]), remaining[i], FALSE)]
        senderKeys        == KeysInOrder(fromEmails(personalMessages))
        personalClusters  == [i \in 1..Len(senderKeys) |->
                                personalCluster(senderKeys[i],
                                    SelectSeq(personalMessages, LAMBDA m : m.fromEmail = senderKeys[i]))]
        all               == rootClusters \o domainClusters \o personalClusters
    IN  SortDesc(all, [i \in 1..Len(all) |-> all[i].count])

----------------------------------------------------------------------------
(* generateFilterSuggestions *)

filterPrefix == <<"f","i","l","t","e","r","-">>

\* cluster.messages.sort by date descending, in place
sortByDate(msgs) == SortDesc(msgs, [i \in 1..Len(msgs) |-> msgs[i].date])

\* Mutant of qualifies: the minimum of 5 messages is not tested.
qualifies_NoThreshold(cluster) == cluster.suggestedAction = "filter"

qualifies(cluster) == cluster.suggestedAction = "filter" /\ cluster.count >= 5

isMixed(cluster) ==
    /\ \E i \in 1..Len(cluster.senderDetails) : ~cluster.senderDetails[i].shouldArchive
    /\ \E i \in 1..Len(cluster.senderDetails) : cluster.senderDetails[i].shouldArchive

\* the per-sender suggestions of a mixed grouped cluster
splitSuggestions(cluster) ==
    LET kept == SelectSeq(cluster.senderDetails, LAMBDA sender : ~(sender.count < 5))
    IN  [i \in 1..Len(kept) |->
            [ id            |-> filterPrefix \o kept[i].email,
              criteria      |-> [from |-> kept[i].email],
              action        |-> [skipInbox |-> TRUE, addLabel |-> cluster.suggestedLabel],
              matchCount    |-> kept[i].count,
              description   |-> <<"Auto-archive emails from", kept[i].email, kept[i].count>>,
              isGrouped     |-> FALSE,
              senderDetails |-> <<kept[i]>>,
              metrics       |-> cluster.metrics ]]

\* the single suggestion of a cluster that is not split
standardSuggestion(cluster) ==
    LET sorted      == sortByDate(cluster.messages)
        filterFrom  == IF cluster.isGrouped THEN <<"*">> \o cluster.domain ELSE cluster.sender
        senderCount == IF "allSenders" \in DOMAIN cluster /\ Len(cluster.allSenders) # 0
                       THEN Len(cluster.allSenders) ELSE 1
    IN  [ id              |-> filterPrefix \o cluster.domain,
          criteria        |-> [from |-> filterFrom],
          action          |-> [skipInbox |-> TRUE, addLabel |-> cluster.suggestedLabel],
          matchCount      |-> cluster.count,
          description     |-> IF cluster.isGrouped
                              THEN <<"Auto-archive emails from senders at", senderCount, cluster.domain, cluster.count>>
                              ELSE <<"Auto-archive emails from", cluster.sender, cluster.count>>,
          latestMessageId |-> sorted[1].id,
          isGrouped       |-> cluster.isGrouped,
          senderDetails   |-> cluster.senderDetails,
          metrics         |-> cluster.metrics ]

\* Mutant of suggestionsOf: a mixed grouped cluster is not split.
suggestionsOf_NoSplit(cluster) ==
    IF ~qualifies(cluster) THEN <<>> ELSE <<standardSuggestion(cluster)>>

suggestionsOf(cluster) ==
    IF ~qualifies(cluster) THEN <<>>
    ELSE IF cluster.isGrouped /\ isMixed(cluster) THEN splitSuggestions(cluster)
    ELSE <<standardSuggestion(cluster)>>

generateFilterSuggestions(cs) ==
    Flatten([i \in 1..Len(cs) |-> suggestionsOf(cs[i])])

\* The clusters after generateFilterSuggestions: the messages of every
\* qualifying cluster have been sorted in place.
clustersAfterSuggestions(cs) ==
    [i \in 1..Len(cs) |->
        IF qualifies(cs[i]) THEN [cs[i] EXCEPT !.messages = sortByDate(@)] ELSE cs[i]]

----------------------------------------------------------------------------
(* The bounded inputs of the pure functions *)

\* Bounds of the inputs: an automated sender has 0..MaxPerSender messages,
\* a personal sender one of PersonalCounts (the personal thresholds are 10
\* and 20).
MaxPerSender == 5

PersonalCounts == {0, 2, 10, 20}

InputCounts ==
    {[s \in 1..Len(SenderList) |-> IF s \in AutomatedIdx THEN a[s] ELSE p[s]] :
        a \in [AutomatedIdx -> 0..MaxPerSender],
        p \in [(1..Len(SenderList)) \ AutomatedIdx -> PersonalCounts]}

\* the senders of the input list, sender by sender or interleaved
blockLayout(cnt) ==
    Flatten([s \in 1..Len(SenderList) |-> [k \in 1..cnt[s] |-> SenderList[s]]])

interleavedLayout(cnt) ==
    Flatten([r \in 1..20 |->
        LET idx == SelectSeq([s \in 1..Len(SenderList) |-> s], LAMBDA s : cnt[s] >= r)
        IN  [k \in 1..Len(idx) |-> SenderList[idx[Len(idx) + 1 - k]]]])

messageList(senders) == [i \in 1..Len(senders) |-> EmailMessage(i, senders[i])]

Inputs ==
    {messageList(blockLayout(cnt)) : cnt \in InputCounts}
        \cup {messageList(interleavedLayout(cnt)) : cnt \in InputCounts}

----------------------------------------------------------------------------
(* lib/store: getTrustedSenders, addTrustedSenders, removeTrustedSender *)

\* trusted-senders.json does not exist until lib/store writes it, and
\* lib/store writes JSON.stringify of an array of addresses.
missingFile == [kind |-> "missing"]
arrayFile(items) == [kind |-> "array", items |-> items]

\* getTrustedSenders: the parsed content, [] when the file cannot be read
getTrustedSenders(file) ==
    IF file.kind = "missing" THEN <<>> ELSE file.items

\* what addTrustedSenders writes: Array.from(new Set([...current, ...emails]))
addTrustedSenders(current, emails) == arrayFile(KeysInOrder(current \o emails))

\* what removeTrustedSender writes: current.filter(e => e !== email)
removeTrustedSender(current, email) ==
    arrayFile(SelectSeq(current, LAMBDA e : e # email))

\* Bounds of the store traffic
MaxStoreCalls == 2

TrustCandidates == {PromoAtMail, noreplyAtMail}

StoreRequests ==
    {[op |-> "add", emails |-> <<e>>] : e \in TrustCandidates}
        \cup {[op |-> "add", emails |-> <<PromoAtMail, noreplyAtMail>>]}
        \cup {[op |-> "remove", emails |-> <<e>>] : e \in TrustCandidates}

TIdle ==
    /\ storeFile = missingFile
    /\ storeCalls = <<>>
    /\ trustedAtStart = {}

\* POST / DELETE of the trusted-senders route: the call starts and awaits
\* getTrustedSenders
StoreCall(req) ==
    /\ Len(storeCalls) < MaxStoreCalls
    /\ storeCalls' = Append(storeCalls,
                            [req |-> req, pc |-> "read", current |-> <<>>, completed |-> 0])
    /\ UNCHANGED <<storeFile, trustedAtStart, rvars>>
    /\ UNCHANGED <<svars, dvars>>

\* fs.readFile of getTrustedSenders completes; the call awaits fs.writeFile
StoreRead(c) ==
    /\ storeCalls[c].pc = "read"
    /\ storeCalls' = [storeCalls EXCEPT ![c].pc = "write",
                                        ![c].current = getTrustedSenders(storeFile)]
    /\ UNCHANGED <<storeFile, trustedAtStart, rvars>>
    /\ UNCHANGED <<svars, dvars>>

\* the number of lib/store calls that have returned
Completed == Cardinality({d \in 1..Len(storeCalls) : storeCalls[d].pc = "done"})

\* fs.writeFile completes and the call returns: completed is the rank of the
\* call among the calls that have returned
StoreWrite(c) ==
    /\ storeCalls[c].pc = "write"
    /\ storeFile' = IF storeCalls[c].req.op = "add"
                    THEN addTrustedSenders(storeCalls[c].current, storeCalls[c].req.emails)
                    ELSE removeTrustedSender(storeCalls[c].current, storeCalls[c].req.emails[1])
    /\ storeCalls' = [storeCalls EXCEPT ![c].pc = "done",
                                        ![c].completed = 1 + Completed]
    /\ UNCHANGED <<trustedAtStart, rvars>>
    /\ UNCHANGED <<svars, dvars>>

\* the addresses of the addTrustedSenders calls that have completed
StoredAddresses ==
    UNION {Range(storeCalls[c].req.emails) :
            c \in {d \in 1..Len(storeCalls) :
                    storeCalls[d].req.op = "add" /\ storeCalls[d].pc = "done"}}

\* the addresses a removeTrustedSender call was started for
RemovedAddresses ==
    UNION {Range(storeCalls[c].req.emails) :
            c \in {d \in 1..Len(storeCalls) : storeCalls[d].req.op = "remove"}}

----------------------------------------------------------------------------
(* The report pipeline of the analyze route *)

\* The trusted-sender load of the analyze route: readFile and JSON.parse in
\* a try whose catch yields the empty Set, then new Set(data.senders || []).
\* The property senders of a parsed JSON array is undefined.
loadTrustedSenders(file) ==
    IF file.kind = "missing" THEN {}
    ELSE IF file.kind = "object" THEN Range(file.senders)
    ELSE {}

actionableMessages(msgs, trusted) ==
    SelectSeq(msgs, LAMBDA msg : toLowerCase(msg.fromEmail) \notin trusted)

\* Mutant of filterByExistingCriteria: only the exact match is tested.
filterByExistingCriteria_ExactOnly(suggestion, filters) ==
    LET fromCriteria == toLowerCase(suggestion.criteria.from)
    IN  /\ fromCriteria # <<>>
        /\ \E i \in 1..Len(filters) :
              LET existingFrom == toLowerCase(filters[i])
              IN  existingFrom # <<>> /\ existingFrom = fromCriteria

\* filterByExistingCriteria: TRUE when an existing filter covers the suggestion
filterByExistingCriteria(suggestion, filters) ==
    LET fromCriteria == toLowerCase(suggestion.criteria.from)
    IN  /\ fromCriteria # <<>>
        /\ \E i \in 1..Len(filters) :
              LET existingFrom == toLowerCase(filters[i])
              IN  /\ existingFrom # <<>>
                  /\ \/ existingFrom = fromCriteria
                     \/ includes(existingFrom, fromCriteria)

\* Bound: what gmail.getFilters() may return (the from criteria of each filter)
FilterLists == { <<>>, << <<"*","m","a","i","l",".","x",".","c","o","m">> >> }

RIdle ==
    /\ messages = <<>>
    /\ stage = "idle"
    /\ existingFilters = <<>>
    /\ trustedSenders = {}
    /\ clusters = <<>>
    /\ suggestions = <<>>
    /\ reportSuggestions = <<>>

----------------------------------------------------------------------------
(* One request to the analyze route or to the actions route: the progress
   stream, the scan loop and GmailClient.getMessages.

   start() of the ReadableStream runs from one await to the next without
   interruption. A handler below is the code between two awaits, written as
   a function from the state S it finds to the state it leaves; S.thrown
   carries an exception from the statement that raised it to the catch. *)

\* Scaled program constants
targetCount == 6      \* const targetCount = 1000
GmailPageLimit == 5   \* Math.min(remaining, 500); getMessages(500, ...)
BATCH_SIZE == 2       \* const BATCH_SIZE = 25
FatigueLimit == 2     \* consecutiveEmptyBatches >= 5
\* Bounds of the mailbox: the pages one query has at most, and the fetched
\* messages of a scan that repeat a message collected before
MaxPages == 2
MaxOverlap == 4

categories == <<"primary", "updates", "promotions", "social", "in:inbox">>

Null == 0
Pending == -1
NoPage == [ok |-> TRUE, len |-> 0, next |-> FALSE]
NoCount == [ok |-> TRUE, count |-> 0, more |-> FALSE]

NoMutations == [create |-> 0, modify |-> 0, ids |-> 0]

NoFallback == [suggestions |-> {}, clusters |-> {}]

Min(a, b) == IF a <= b THEN a ELSE b

St ==
    [ body |-> body, pc |-> pc, out |-> out, streamState |-> streamState, err |-> err,
      allMessages |-> allMessages, seenIds |-> seenIds, totalProcessed |-> totalProcessed,
      catIdx |-> catIdx, pageToken |-> pageToken,
      consecutiveEmptyBatches |-> consecutiveEmptyBatches,
      page |-> page, batchStart |-> batchStart, fetched |-> fetched,
      batchResults |-> batchResults,
      accurate |-> accurate, sIdx |-> sIdx, total |-> total, lookups |-> lookups,
      orphans |-> orphans, clusterData |-> clusterData, cIdx |-> cIdx,
      archivedCount |-> archivedCount, mutations |-> mutations, fellBack |-> fellBack,
      matched |-> matched,
      calledAfterCancel |-> calledAfterCancel, catEmpty |-> catEmpty,
      fetchFailed |-> fetchFailed, lost |-> lost,
      messages |-> messages, stage |-> stage, existingFilters |-> existingFilters,
      trustedSenders |-> trustedSenders, clusters |-> clusters,
      suggestions |-> suggestions, reportSuggestions |-> reportSuggestions,
      thrown |-> "" ]

\* the request takes the state T a handler has returned
Become(S) ==
    \E T \in {S} :
        /\ body' = T.body /\ pc' = T.pc /\ out' = T.out /\ streamState' = T.streamState
        /\ err' = T.err /\ allMessages' = T.allMessages /\ seenIds' = T.seenIds
        /\ totalProcessed' = T.totalProcessed /\ catIdx' = T.catIdx
        /\ pageToken' = T.pageToken
        /\ consecutiveEmptyBatches' = T.consecutiveEmptyBatches
        /\ page' = T.page /\ batchStart' = T.batchStart /\ fetched' = T.fetched
        /\ batchResults' = T.batchResults
        /\ accurate' = T.accurate /\ sIdx' = T.sIdx /\ total' = T.total
        /\ lookups' = T.lookups /\ orphans' = T.orphans
        /\ clusterData' = T.clusterData /\ cIdx' = T.cIdx
        /\ archivedCount' = T.archivedCount /\ mutations' = T.mutations
        /\ fellBack' = T.fellBack /\ matched' = T.matched
        /\ calledAfterCancel' = T.calledAfterCancel /\ catEmpty' = T.catEmpty
        /\ fetchFailed' = T.fetchFailed /\ lost' = T.lost
        /\ messages' = T.messages /\ stage' = T.stage
        /\ existingFilters' = T.existingFilters /\ trustedSenders' = T.trustedSenders
        /\ clusters' = T.clusters /\ suggestions' = T.suggestions
        /\ reportSuggestions' = T.reportSuggestions

\* ---- the stream controller

raise(S, origin) == IF S.thrown # "" THEN S ELSE [S EXCEPT !.thrown = origin]

\* controller.enqueue: a TypeError once the stream is no longer readable
enqueue(S, record) ==
    IF S.thrown # "" THEN S
    ELSE IF S.streamState = "readable" THEN [S EXCEPT !.out = Append(@, record)]
    ELSE raise(S, "enqueue")

\* controller.close
close(S) ==
    IF S.thrown # "" THEN S
    ELSE IF S.streamState = "readable" THEN [S EXCEPT !.streamState = "closed"]
    ELSE raise(S, "close")

progress(stageName) == [type |-> "progress", stage |-> stageName]

scanning(scanned, collected) ==
    [type |-> "progress", stage |-> "Scanning", scanned |-> scanned, collected |-> collected]

\* sendUpdate: enqueue of a progress record (out keeps the last of a run)
sendUpdate(S, record) ==
    IF S.thrown = "" /\ S.streamState = "readable" /\ S.out # <<>>
          /\ S.out[Len(S.out)].type = "progress"
    THEN [S EXCEPT !.out[Len(S.out)] = record]
    ELSE enqueue(S, record)

\* Mutant of sendResult: the result record is not written.
sendResult_Silent(S, data) == S

sendResult(S, data) == enqueue(S, [type |-> "result", data |-> data])

\* a mailbox call is issued
call(S) ==
    IF S.thrown # "" THEN S
    ELSE [S EXCEPT !.calledAfterCancel = @ \/ S.streamState = "cancelled"]

\* archiveMessages / applyLabel: one messages.batchModify call with the
\* whole id list
batchModify(S, ids) ==
    IF S.thrown # "" THEN S
    ELSE call([S EXCEPT !.mutations.modify = @ + 1,
                        !.mutations.ids = IF ids > @ THEN ids ELSE @])

\* createFilter: one filters.create call
createFilter(S) ==
    IF S.thrown # "" THEN S ELSE call([S EXCEPT !.mutations.create = @ + 1])

\* start() suspends at an await
await(S, label) == IF S.thrown # "" THEN S ELSE [S EXCEPT !.pc = label]

\* the catch of start(): an error record, then close. An exception raised
\* in the catch rejects start().
errorRecord(action, message) ==
    IF action = "analyze"
    THEN [type |-> "error", message |-> <<"Analysis failed: ", message>>]
    ELSE [type |-> "error", error |-> IF message = "" THEN "Unknown error" ELSE message]

catch(S) ==
    IF S.thrown = "" THEN S
    ELSE LET C == [S EXCEPT !.err = S.thrown, !.thrown = ""]
             E == close(enqueue(C, errorRecord(C.body.action, C.err)))
         IN  IF E.thrown = "" THEN [E EXCEPT !.pc = "done"]
             ELSE [E EXCEPT !.pc = "aborted", !.thrown = ""]

\* ---- the scan loop of the analyze route

\* Mutant of batchSize: every page asks for the provider's limit.
batchSize_WholePage(remaining) == GmailPageLimit

batchSize(remaining) == Min(remaining, GmailPageLimit)

\* getMessages up to its first await: messages.list is issued
listPage(S) ==
    IF S.thrown # "" THEN S
    ELSE await(call([S EXCEPT !.page = NoPage, !.batchStart = 0, !.fetched = 0,
                              !.batchResults = <<>>]), "list")

\* "2. Fetch filters": the scan is over, its loop variables are out of scope
\* and totalProcessed is not read again
finishScan(S) ==
    LET S1 == sendUpdate([S EXCEPT !.catIdx = 0, !.pageToken = 0, !.totalProcessed = 0,
                                   !.consecutiveEmptyBatches = 0, !.catEmpty = 0],
                         progress("Checking filters"))
    IN  await(call(S1), "filters")

\* body of the while loop up to the await of getMessages
beginPage(S) ==
    LET S1 == sendUpdate(S, scanning(S.totalProcessed, Len(S.allMessages)))
    IN  IF S1.thrown # "" THEN S1
        ELSE listPage([S1 EXCEPT !.consecutiveEmptyBatches = 0])

\* the for loop reaches the query categories[c]
enterCategory(S, c) ==
    IF S.thrown # "" THEN S
    ELSE IF c > Len(categories) \/ Len(S.allMessages) >= targetCount THEN finishScan(S)
    ELSE beginPage([S EXCEPT !.catIdx = c, !.pageToken = 0, !.catEmpty = 0])

\* Mutant of afterPage: without a nextPageToken the loop lists the category
\* again from its first page.
afterPage_Relist(S, next) ==
    LET S1 == [S EXCEPT !.totalProcessed = @ + S.fetched]
    IN  IF S1.consecutiveEmptyBatches >= FatigueLimit THEN enterCategory(S1, S1.catIdx + 1)
        ELSE IF Len(S1.allMessages) < targetCount
        THEN beginPage([S1 EXCEPT !.pageToken = IF next THEN @ + 1 ELSE 0])
        ELSE enterCategory(S1, S1.catIdx + 1)

\* getMessages has returned S.fetched messages and the token next
afterPage(S, next) ==
    LET S1 == [S EXCEPT !.totalProcessed = @ + S.fetched]
    IN  IF S1.consecutiveEmptyBatches >= FatigueLimit THEN enterCategory(S1, S1.catIdx + 1)
        ELSE IF ~next THEN enterCategory(S1, S1.catIdx + 1)
        ELSE LET S2 == [S1 EXCEPT !.pageToken = @ + 1]
             IN  IF Len(S2.allMessages) < targetCount THEN beginPage(S2)
                 ELSE enterCategory(S2, S2.catIdx + 1)

\* the dedup loop of the progress callback
collect(all, seen, batchMessages) ==
    LET f[k \in 0..Len(batchMessages)] ==
            IF k = 0 THEN [all |-> all, seen |-> seen, added |-> 0]
            ELSE LET prev == f[k - 1]
                     id   == batchMessages[k]
                 IN  IF id \notin prev.seen
                     THEN [all   |-> Append(prev.all, id),
                           seen  |-> prev.seen \cup {id},
                           added |-> prev.added + 1]
                     ELSE prev
    IN  f[Len(batchMessages)]

\* Mutant of onScanProgress: the scanned count of the record is the count of
\* the current page, totalProcessed is not added.
onScanProgress_PageCount(S, batchMessages) ==
    LET d  == collect(S.allMessages, S.seenIds, batchMessages)
        S1 == [S EXCEPT
                 !.allMessages = d.all,
                 !.seenIds = d.seen,
                 !.consecutiveEmptyBatches = IF d.added = 0 THEN @ + 1 ELSE 0,
                 !.catEmpty = IF @ < 0 \/ @ >= FatigueLimit THEN @
                              ELSE IF d.added = 0 THEN @ + 1 ELSE -1,
                 !.lost = @ \/ \E k \in 1..Len(batchMessages) : batchMessages[k] \notin d.seen]
    IN  sendUpdate(S1, scanning(S.fetched, Len(d.all)))

\* the progress callback the scan hands to getMessages
onScanProgress(S, batchMessages) ==
    LET d  == collect(S.allMessages, S.seenIds, batchMessages)
        S1 == [S EXCEPT
                 !.allMessages = d.all,
                 !.seenIds = d.seen,
                 !.consecutiveEmptyBatches = IF d.added = 0 THEN @ + 1 ELSE 0,
                 !.catEmpty = IF @ < 0 \/ @ >= FatigueLimit THEN @
                              ELSE IF d.added = 0 THEN @ + 1 ELSE -1,
                 !.lost = @ \/ \E k \in 1..Len(batchMessages) : batchMessages[k] \notin d.seen]
    IN  sendUpdate(S1, scanning(S.totalProcessed + S.fetched, Len(d.all)))

\* ---- GmailClient.getMessages and getMessage

\* Mutant of getMessage: the failure of messages.get is raised to the caller.
getMessage_Rethrow(response) ==
    IF response.ok THEN [thrown |-> FALSE, value |-> response.id]
    ELSE [thrown |-> TRUE, value |-> Null]

\* getMessage: the message of the response, null when messages.get fails
getMessage(response) ==
    IF response.ok THEN [thrown |-> FALSE, value |-> response.id]
    ELSE [thrown |-> FALSE, value |-> Null]

\* The scan tests a message id for membership in seenIds and nothing else.
\* The model names a message by the rank at which the scan collects it: a
\* fetched id up to the number of known ids is a collected message, a larger
\* one is a message not collected yet, and the not yet collected messages of
\* a sub-batch take the next ranks in the order of the sub-batch.
messageIds(results, known) ==
    LET valid   == SelectSeq(results, LAMBDA r : r # Null)
        fresh   == KeysInOrder(SelectSeq(valid, LAMBDA r : r > known))
        rank(r) == CHOOSE k \in 1..Len(fresh) : fresh[k] = r
    IN  [k \in 1..Len(valid) |->
            IF valid[k] > known THEN known + rank(valid[k]) ELSE valid[k]]

\* Mutant of issueBatch: the rest of the page is fetched in one Promise.all.
issueBatch_Unbounded(S) ==
    await(call([S EXCEPT !.batchResults = [p \in 1..(S.page.len - S.batchStart) |-> Pending]]),
          "fetch")

\* the Promise.all of the sub-batch msgIds.slice(i, i + BATCH_SIZE) is issued
issueBatch(S) ==
    LET size == Min(BATCH_SIZE, S.page.len - S.batchStart)
    IN  await(call([S EXCEPT !.batchResults = [p \in 1..size |-> Pending]]), "fetch")

\* the progress callback of the actions route
onActionProgress(S) == sendUpdate(S, progress("Finding emails to archive"))

\* createStreamResponse after process() has returned, and the end of the
\* try of the analyze route: the result record, then close
finish(S, data) ==
    LET E == close(sendResult(S, data))
    IN  IF E.thrown # "" THEN E ELSE [E EXCEPT !.pc = "done"]

actionResult(S) == [success |-> TRUE, archivedCount |-> S.archivedCount]

\* the paging loops of createFilter and archiveFromSender, after a page
continuePaging(S, next) ==
    IF S.thrown # "" THEN S
    ELSE IF next THEN listPage([S EXCEPT !.pageToken = @ + 1])
    ELSE finish(S, actionResult(S))

actionAfterPage(S, next) ==
    IF S.fetched > 0
    THEN await(batchModify(sendUpdate([S EXCEPT !.page = [@ EXCEPT !.next = next]],
                                      progress("Archiving batch")), S.fetched),
               "archive")
    ELSE continuePaging(S, next)

\* getMessages returns to its caller
returned(S, next) ==
    IF S.body.action = "analyze" THEN afterPage(S, next) ELSE actionAfterPage(S, next)

\* messages.list has answered
listDone(S, response) ==
    IF ~response.ok THEN raise(S, "messages.list")
    ELSE IF response.len = 0 THEN returned(S, FALSE)
    ELSE issueBatch([S EXCEPT !.page = response, !.batchStart = 0, !.fetched = 0])

\* the Promise.all of a sub-batch has resolved
batchDone(S) ==
    LET validMessages == messageIds(S.batchResults, Cardinality(S.seenIds))
        S1 == [S EXCEPT !.fetched = @ + Len(validMessages), !.batchResults = <<>>]
        S2 == IF S.body.action = "analyze" THEN onScanProgress(S1, validMessages)
              ELSE onActionProgress(S1)
        S3 == [S2 EXCEPT !.batchStart = @ + BATCH_SIZE]
    IN  IF S2.thrown # "" THEN S2
        ELSE IF S3.batchStart < S3.page.len THEN await(S3, "delay")
        ELSE returned(S3, S3.page.next)

\* messages.get of position p of the sub-batch has answered
fetchDone(S, p, response) ==
    LET r  == getMessage(response)
        S1 == [S EXCEPT !.fetchFailed = @ \/ ~response.ok]
        S2 == [S1 EXCEPT !.batchResults[p] = r.value]
    IN  IF r.thrown THEN raise(S1, "messages.get")
        ELSE IF \E q \in DOMAIN S2.batchResults : S2.batchResults[q] = Pending THEN S2
        ELSE batchDone(S2)

\* ---- the mailbox

\* what messages.list may answer to a request for maxResults ids
ListResponses(maxResults, token) ==
    {[ok |-> FALSE, len |-> 0, next |-> FALSE], [ok |-> TRUE, len |-> 0, next |-> FALSE]}
        \cup {[ok |-> TRUE, len |-> l, next |-> nx] :
                l \in 1..maxResults,
                nx \in IF token + 1 < MaxPages THEN BOOLEAN ELSE {FALSE}}

\* what messages.get may answer for position p of a sub-batch: a failure, a
\* message collected before (repeats many of them), or one not collected yet
FetchResponses(known, repeats, p) ==
    {[ok |-> FALSE, id |-> Null]}
        \cup {[ok |-> TRUE, id |-> k] :
                k \in (IF known >= 1 /\ repeats < MaxOverlap THEN {known} ELSE {})
                          \cup (known + 1)..(known + p)}

\* the fetched messages of the scan so far that repeat a collected message
Repeats ==
    totalProcessed + fetched - Len(allMessages)
        + Cardinality({q \in DOMAIN batchResults :
                          batchResults[q] >= 1 /\ batchResults[q] <= Cardinality(seenIds)})

\* the sender of the message the scan collects at a rank
MailboxSender(id) ==
    IF id <= 5 THEN noreplyAtMail ELSE IF id = 6 THEN bobAtX
    ELSE IF id <= 11 THEN resetAtAlerts ELSE PromoAtMail

workingSet(ids) == [k \in 1..Len(ids) |-> EmailMessage(ids[k], MailboxSender(ids[k]))]

\* ---- the reconciliation phase of the analyze route

TopSuggestions == 10
TopClusters == 20

MetricCategories == <<"primary", "updates", "promotions", "social">>

slice(s, n) == SubSeq(s, 1, Min(n, Len(s)))

top10(S) == slice(S.reportSuggestions, TopSuggestions)

topClusters(S) == slice(S.clusters, TopClusters)

\* the end of the try: existingFiltersData, the payload, the result record
finishAnalyze(S) ==
    IF S.thrown # "" THEN S
    ELSE finish(S, [ stats |-> [clusters |-> Len(S.clusters),
                                filterSuggestions |-> Len(S.accurate)],
                     clusters |-> S.clusterData,
                     filterSuggestions |-> S.accurate,
                     existingFilters |-> slice(S.existingFilters, TopSuggestions) ])

\* the loop over topClusters reaches its next cluster
nextCluster(S) ==
    IF S.thrown # "" THEN S
    ELSE IF S.cIdx + 1 > Len(topClusters(S)) THEN finishAnalyze(S)
    ELSE await(call([S EXCEPT !.cIdx = @ + 1]), "estimate")

\* after the loop over top10: both sorts, then the loop over topClusters
startClusters(S) ==
    LET a == S.accurate
        c == S.clusters
    IN  nextCluster([S EXCEPT
            !.accurate = SortDesc(a, [i \in 1..Len(a) |->
                                        a[i].metrics.primary * 1000 + a[i].matchCount]),
            !.clusters = SortDesc(c, [i \in 1..Len(c) |->
                                        c[i].metrics.primary * 3 + c[i].count]),
            !.sIdx = 0, !.total = NoCount, !.lookups = <<>>])

\* the loop over top10 reaches its next suggestion
nextSuggestion(S) ==
    IF S.thrown # "" THEN S
    ELSE IF S.sIdx + 1 > Len(top10(S)) THEN startClusters(S)
    ELSE LET S1 == [S EXCEPT !.sIdx = @ + 1, !.total = NoCount, !.lookups = <<>>]
         IN  IF Len(S1.accurate) > 0 THEN await(S1, "sdelay")
             ELSE await(call(S1), "count")

\* Mutant of fallback: the catch of the loop body pushes nothing.
fallback_Drop(S) ==
    nextSuggestion([S EXCEPT !.fellBack.suggestions = @ \cup {S.sIdx}])

\* the catch of the loop body: the original suggestion is pushed
fallback(S) ==
    nextSuggestion([S EXCEPT !.accurate = Append(@, top10(S)[S.sIdx]),
                             !.fellBack.suggestions = @ \cup {S.sIdx}])

\* step 5: the suggestions existing filters cover are dropped from the
\* report, then the count reconciliation starts
withSuggestions(S, cs, found) ==
    nextSuggestion(sendUpdate(
        [S EXCEPT
           !.clusters = clustersAfterSuggestions(cs),
           !.suggestions = found,
           !.reportSuggestions =
               SelectSeq(found, LAMBDA x : ~filterByExistingCriteria(x, S.existingFilters)),
           !.stage = "reported"],
        progress("Generating accurate counts")))

\* step 4: the clusters of the actionable messages and their suggestions
withClusters(S, cs) == withSuggestions(S, cs, generateFilterSuggestions(cs))

\* getFilters and the trusted-sender load have answered: steps 3 to 5
filtersDone(S, response, file) ==
    IF ~response.ok THEN raise(S, "getFilters")
    ELSE
    LET S2 == sendUpdate([S EXCEPT !.messages = workingSet(S.allMessages),
                                   !.existingFilters = response.filters,
                                   !.trustedSenders = loadTrustedSenders(file)],
                         progress("Clustering emails"))
    IN  IF S2.thrown # "" THEN S2
        ELSE withClusters(S2, clusterByDomain(
                                actionableMessages(S2.messages, S2.trustedSenders)))

\* Number.prototype.toString of a count below 100
Digits == <<"0","1","2","3","4","5","6","7","8","9">>

toString(n) ==
    IF n < 10 THEN <<Digits[n + 1]>>
    ELSE <<Digits[(n \div 10) + 1], Digits[(n % 10) + 1]>>

\* const countDisplay = isPlus ? "500+" : count.toString()
countDisplay(count, isPlus) == IF isPlus THEN <<"5","0","0","+">> ELSE toString(count)

\* the total getMessageCount of the suggestion has answered; matches is the
\* number of messages of the mailbox that match its query
totalDone(S, response, matches) ==
    IF ~response.ok THEN fallback(S)
    ELSE await(call([S EXCEPT
                       !.total = response,
                       !.matched = @ \cup {<<S.sIdx, matches>>},
                       !.lookups = [c \in 1..Len(MetricCategories) |->
                                       [at |-> "probe", count |-> 0]]]), "metrics")

\* the Promise.all of the four category lookups has resolved
metricsDone(S) ==
    LET suggestion == top10(S)[S.sIdx]
    IN  nextSuggestion([S EXCEPT !.accurate = Append(@,
            [suggestion EXCEPT
                !.matchCount = S.total.count,
                !.description = [from |-> suggestion.criteria.from,
                                 countDisplay |-> countDisplay(S.total.count, S.total.more)],
                !.metrics = [primary    |-> S.lookups[1].count,
                             updates    |-> S.lookups[2].count,
                             promotions |-> S.lookups[3].count,
                             social     |-> S.lookups[4].count]])])

\* a getMessageCount of the chain of category c has answered
lookupDone(S, c, response) ==
    LET inFlight(at) == Cardinality({d \in DOMAIN S.lookups \ {c} : S.lookups[d].at = at})
        S1 == [S EXCEPT !.lookups[c] = [at |-> "done", count |-> response.count]]
    IN  IF ~response.ok
        THEN fallback([S EXCEPT !.orphans = [probe |-> @.probe + inFlight("probe"),
                                             full  |-> @.full + inFlight("full")]])
        ELSE IF S.lookups[c].at = "probe" /\ response.count # 0
        THEN call([S EXCEPT !.lookups[c] = [at |-> "full", count |-> 0]])
        ELSE IF \A d \in DOMAIN S1.lookups : S1.lookups[d].at = "done" THEN metricsDone(S1)
        ELSE S1

\* a getMessageCount of a chain whose Promise.all has already rejected
orphanDone(S, at, response) ==
    IF at = "probe" /\ response.ok /\ response.count # 0
    THEN call([S EXCEPT !.orphans = [probe |-> @.probe - 1, full |-> @.full + 1]])
    ELSE [S EXCEPT !.orphans[at] = @ - 1]

\* getMessageCountEstimate of the cluster has answered
estimateDone(S, response) ==
    LET c == topClusters(S)[S.cIdx]
        ids == [k \in 1..Len(c.messages) |-> c.messages[k].id]
        item(count, isPlus) ==
            [ domain |-> c.domain, sender |-> c.sender, count |-> count,
              isPlus |-> isPlus, suggestedAction |-> c.suggestedAction,
              suggestedLabel |-> c.suggestedLabel, messageIds |-> ids,
              metrics |-> c.metrics ]
    IN  IF response.ok
        THEN await([S EXCEPT !.clusterData =
                        Append(@, item(response.count, response.count >= GmailPageLimit))],
                   "cdelay")
        ELSE nextCluster([S EXCEPT !.clusterData = Append(@, item(Len(c.messages), FALSE)),
                                   !.fellBack.clusters = @ \cup {S.cIdx}])

\* what a count lookup may answer
Failure == [ok |-> FALSE, count |-> 0, more |-> FALSE]

\* messages.list of a query that matches many messages: at most maxResults
\* ids, and a nextPageToken when there are more
listMatches(matches, maxResults) ==
    [ok |-> TRUE, len |-> Min(matches, maxResults), next |-> matches > maxResults]

\* Mutant of getMessageCount: more is reported once the count reaches
\* maxResults, the nextPageToken is not consulted.
getMessageCount_CapReached(matches, maxResults) ==
    LET response == listMatches(matches, maxResults)
    IN  [ok |-> TRUE, count |-> response.len, more |-> response.len >= maxResults]

\* getMessageCount(query, maxResults) on a mailbox in which matches
\* messages match query
getMessageCount(matches, maxResults) ==
    LET response == listMatches(matches, maxResults)
    IN  [ok |-> TRUE, count |-> response.len, more |-> response.next]

\* Bound: the messages of the mailbox that match the query of a suggestion
MatchCounts == {3, GmailPageLimit, GmailPageLimit + 1}

\* what the total lookup getMessageCount(query, 500) may answer
TotalResponses(matches) == {Failure, getMessageCount(matches, GmailPageLimit)}

ProbeResponses ==
    {Failure, [ok |-> TRUE, count |-> 0, more |-> FALSE], [ok |-> TRUE, count |-> 1, more |-> TRUE]}

FullResponses == {Failure, [ok |-> TRUE, count |-> 3, more |-> FALSE]}

EstimateResponses ==
    {Failure, [ok |-> TRUE, count |-> 3, more |-> FALSE],
     [ok |-> TRUE, count |-> GmailPageLimit, more |-> FALSE]}

\* what getFilters may answer
FilterResponses ==
    {[ok |-> FALSE, filters |-> <<>>], [ok |-> TRUE, filters |-> <<>>],
     [ok |-> TRUE, filters |-> <<noreplyAtMail>>]}

\* ---- the actions route

\* Scaled limit of the mailbox: the ids one messages.batchModify call takes
\* at most (1000)
BatchModifyLimit == 3

\* an ActionRequest body: messageIds is the length of the id list
request(action) ==
    [ action |-> action, hasIds |-> FALSE, messageIds |-> 0, criteria |-> FALSE,
      from |-> FALSE, filterAction |-> FALSE, labelId |-> FALSE,
      archiveExisting |-> FALSE, sender |-> FALSE ]

ActionRequests ==
    { request("archive"),
      [request("archive") EXCEPT !.hasIds = TRUE],
      [request("archive") EXCEPT !.hasIds = TRUE, !.messageIds = 2],
      [request("archive") EXCEPT !.hasIds = TRUE, !.messageIds = BatchModifyLimit + 1],
      request("createFilter"),
      [request("createFilter") EXCEPT !.criteria = TRUE, !.from = TRUE, !.filterAction = TRUE],
      [request("createFilter") EXCEPT !.criteria = TRUE, !.from = TRUE, !.filterAction = TRUE,
                                      !.archiveExisting = TRUE],
      request("applyLabel"),
      [request("applyLabel") EXCEPT !.hasIds = TRUE, !.messageIds = 2, !.labelId = TRUE],
      request("archiveFromSender"),
      [request("archiveFromSender") EXCEPT !.sender = TRUE],
      request("unknown") }

\* the switch of POST up to its first await
process(S) ==
    LET b == S.body
    IN  IF b.action = "archive"
        THEN IF ~b.hasIds \/ b.messageIds = 0 THEN raise(S, "No message IDs provided")
             ELSE await(batchModify(sendUpdate(S, progress("Archiving")), b.messageIds),
                        "mutate")
        ELSE IF b.action = "createFilter"
        THEN IF ~b.criteria \/ ~b.filterAction
             THEN raise(S, "Filter criteria and action required")
             ELSE await(createFilter(sendUpdate(S, progress("Creating filter"))),
                        "createFilter")
        ELSE IF b.action = "applyLabel"
        THEN IF ~b.hasIds \/ ~b.labelId THEN raise(S, "Message IDs and label ID required")
             ELSE await(batchModify(sendUpdate(S, progress("Applying label")),
                                    b.messageIds), "mutate")
        ELSE IF b.action = "archiveFromSender"
        THEN IF ~b.sender THEN raise(S, "Sender email required")
             ELSE listPage(sendUpdate(S, progress("Archiving emails from sender")))
        ELSE raise(S, "Invalid action")

\* Mutant of mutateDone: a failed batchModify is issued once more.
mutateDone_Retry(S, ok) ==
    IF ~ok /\ S.mutations.modify < 2
    THEN await(batchModify(S, S.body.messageIds), "mutate")
    ELSE IF ~ok THEN raise(S, "batchModify") ELSE finish(S, actionResult(S))

\* archiveMessages / applyLabel of the archive and applyLabel cases has answered
mutateDone(S, ok) ==
    IF ~ok THEN raise(S, "batchModify") ELSE finish(S, actionResult(S))

\* filters.create has answered
filterCreated(S, ok) ==
    IF ~ok THEN raise(S, "filters.create")
    ELSE IF S.body.archiveExisting /\ S.body.from
    THEN listPage(sendUpdate(S, progress("Scanning for existing emails")))
    ELSE finish(S, actionResult(S))

\* archiveMessages of a paging loop has answered
archiveDone(S, ok) ==
    IF ~ok THEN raise(S, "batchModify")
    ELSE LET S1 == [S EXCEPT !.archivedCount = @ + S.fetched]
         IN  IF S1.page.next THEN await(S1, "pause") ELSE continuePaging(S1, FALSE)

\* ---- start() up to its first await

startAnalyze(S) == await(call(sendUpdate(S, progress("Connecting to Gmail"))), "stats")

\* getInboxStats has answered
statsDone(S, ok) ==
    IF ~ok THEN raise(S, "getInboxStats")
    ELSE enterCategory(sendUpdate(sendUpdate(S, progress("Found total emails")),
                                  progress("Starting priority fetch")), 1)

\* ---- the setTimeout awaits: between two sub-batches (getMessages), between
\* two suggestions and after a cluster estimate (analyze route), after an
\* archived page (actions route)

Timers == {"delay", "sdelay", "cdelay", "pause"}

resume(S) ==
    IF S.pc = "delay" THEN issueBatch(S)
    ELSE IF S.pc = "sdelay" THEN await(call(S), "count")
    ELSE IF S.pc = "cdelay" THEN nextCluster(S)
    ELSE continuePaging(S, TRUE)

\* ---- the state of a request

SInit(b, at) ==
    /\ body = b /\ pc = at /\ out = <<>> /\ streamState = "readable" /\ err = ""
    /\ allMessages = <<>> /\ seenIds = {} /\ totalProcessed = 0 /\ catIdx = 0
    /\ pageToken = 0 /\ consecutiveEmptyBatches = 0
    /\ page = NoPage /\ batchStart = 0 /\ fetched = 0 /\ batchResults = <<>>
    /\ accurate = <<>> /\ sIdx = 0 /\ total = NoCount /\ lookups = <<>>
    /\ orphans = [probe |-> 0, full |-> 0] /\ clusterData = <<>> /\ cIdx = 0
    /\ archivedCount = 0 /\ mutations = NoMutations /\ fellBack = NoFallback
    /\ matched = {}
    /\ calledAfterCancel = FALSE /\ catEmpty = 0 /\ fetchFailed = FALSE /\ lost = FALSE

\* no request
SIdle == SInit(request("none"), "idle")

----------------------------------------------------------------------------
(* SpecDashboard: the fetchAnalysis calls of the Dashboard component, the
   answers of their fetch and of the reads of their response body *)

\* Bound: the fetchAnalysis calls of one Dashboard
MaxFetches == 3

\* the stage of a progress record, by the word setLoadingStep finds in it
Stages == {"connecting", "stats", "scanning", "clustering", "count", "other"}

\* the chain of msg.includes tests of the read loop
stepOf(msg, step) ==
    IF msg = "connecting" THEN 0
    ELSE IF msg = "stats" THEN 1
    ELSE IF msg = "scanning" THEN 2
    ELSE IF msg = "clustering" THEN 3
    ELSE IF msg = "count" THEN 4
    ELSE step

\* what reader.read() may resolve with: a chunk holding one line, or done
\* with or without a result record left in the buffer; or it rejects
Chunks ==
    {[kind |-> "progress", stage |-> st] : st \in Stages}
        \cup {[kind |-> k, stage |-> "other"] :
                k \in {"result", "error", "done", "doneResult", "failed"}}

\* the Dashboard before its first fetchAnalysis: useState(true) for
\* isLoading, null for the ref and the analysis
DIdle ==
    /\ abortControllerRef = 0
    /\ isLoading = TRUE
    /\ isRefreshing = FALSE
    /\ analysis = 0
    /\ loadingStage = "connecting"
    /\ loadingStep = 0
    /\ toast = FALSE
    /\ fetches = <<>>

\* Mutant of finally: the flags and the ref are cleared without the test
\* abortControllerRef.current === controller.
finally_Always(r) ==
    /\ isLoading' = FALSE
    /\ isRefreshing' = FALSE
    /\ abortControllerRef' = 0
    /\ fetches' = [fetches EXCEPT ![r].at = "returned"]

\* the finally of fetchAnalysis call r, and the call returns
finally(r) ==
    /\ IF abortControllerRef = r
       THEN /\ isLoading' = FALSE
            /\ isRefreshing' = FALSE
            /\ abortControllerRef' = 0
       ELSE UNCHANGED <<isLoading, isRefreshing, abortControllerRef>>
    /\ fetches' = [fetches EXCEPT ![r].at = "returned"]

\* fetchAnalysis(isBackground) runs to its await of fetch; fromRefresh:
\* handleRefresh sets both flags and the stage before it calls fetchAnalysis()
FetchAnalysis(accessToken, isBackground, fromRefresh) ==
    /\ Len(fetches) < MaxFetches
    /\ fromRefresh => ~isBackground
    /\ IF ~accessToken
       THEN /\ isRefreshing' = (isRefreshing \/ fromRefresh)
            /\ isLoading' = (isLoading \/ fromRefresh)
            /\ loadingStage' = IF fromRefresh THEN "connecting" ELSE loadingStage
            /\ UNCHANGED <<abortControllerRef, analysis, loadingStep, toast, fetches>>
       ELSE /\ fetches' = Append(IF abortControllerRef # 0
                                 THEN [fetches EXCEPT ![abortControllerRef].aborted = TRUE]
                                 ELSE fetches,
                                 [isBackground |-> isBackground, at |-> "fetch",
                                  aborted |-> FALSE])
            /\ abortControllerRef' = Len(fetches) + 1
            /\ loadingStage' = "connecting"
            /\ loadingStep' = 0
            /\ isLoading' = (isLoading \/ ~isBackground)
            /\ isRefreshing' = (isRefreshing \/ isBackground \/ fromRefresh)
            /\ UNCHANGED <<analysis, toast>>
    /\ UNCHANGED <<rvars, tvars, svars>>

\* the signal of call r has aborted: the fetch or the read it awaits rejects
\* with an AbortError, the catch returns
Aborted(r) ==
    /\ fetches[r].at \in {"fetch", "read"}
    /\ fetches[r].aborted
    /\ finally(r)
    /\ UNCHANGED <<analysis, loadingStage, loadingStep, toast>>
    /\ UNCHANGED <<rvars, tvars, svars>>

\* the fetch of call r answers: ok, or not ok (or it rejects, or the response
\* has no body), which throws to the catch and its toast
Responded(r, ok) ==
    /\ fetches[r].at = "fetch"
    /\ ~fetches[r].aborted
    /\ IF ok
       THEN /\ fetches' = [fetches EXCEPT ![r].at = "read"]
            /\ UNCHANGED <<abortControllerRef, isLoading, isRefreshing, toast>>
       ELSE /\ toast' = TRUE
            /\ finally(r)
    /\ UNCHANGED <<analysis, loadingStage, loadingStep>>
    /\ UNCHANGED <<rvars, tvars, svars>>

\* reader.read() of call r resolves and the loop runs to its next await, or
\* to the end of fetchAnalysis. The throw of an error record is caught by
\* the try around JSON.parse, so the loop goes on.
ReadResolved(r, chunk) ==
    /\ fetches[r].at = "read"
    /\ ~fetches[r].aborted
    /\ analysis' = IF chunk.kind \in {"result", "doneResult"} THEN r ELSE analysis
    /\ loadingStage' = IF chunk.kind = "progress" THEN chunk.stage ELSE loadingStage
    /\ loadingStep' = IF chunk.kind = "progress" THEN stepOf(chunk.stage, loadingStep)
                      ELSE loadingStep
    /\ toast' = (toast \/ chunk.kind = "failed")
    /\ IF chunk.kind \in {"done", "doneResult", "failed"} THEN finally(r)
       ELSE UNCHANGED <<abortControllerRef, isLoading, isRefreshing, fetches>>
    /\ UNCHANGED <<rvars, tvars, svars>>

\* the setTimeout of showToast elapses
ToastElapsed ==
    /\ toast
    /\ toast' = FALSE
    /\ UNCHANGED <<abortControllerRef, isLoading, isRefreshing, analysis, loadingStage,
                   loadingStep, fetches>>
    /\ UNCHANGED <<rvars, tvars, svars>>

InitDashboard ==
    /\ RIdle
    /\ TIdle
    /\ SIdle
    /\ DIdle

NextDashboard ==
    \/ \E accessToken, isBackground, fromRefresh \in BOOLEAN :
          FetchAnalysis(accessToken, isBackground, fromRefresh)
    \/ \E r \in 1..Len(fetches) : Aborted(r)
    \/ \E r \in 1..Len(fetches) : \E ok \in BOOLEAN : Responded(r, ok)
    \/ \E r \in 1..Len(fetches) : \E chunk \in Chunks : ReadResolved(r, chunk)
    \/ ToastElapsed

SpecDashboard == InitDashboard /\ [][NextDashboard]_vars

----------------------------------------------------------------------------
(* SpecCluster: clusterByDomain and generateFilterSuggestions applied to
   the bounded inputs *)

InitCluster ==
    /\ messages \in Inputs
    /\ stage = "input"
    /\ existingFilters = <<>>
    /\ trustedSenders = {}
    /\ clusters = <<>>
    /\ suggestions = <<>>
    /\ reportSuggestions = <<>>
    /\ TIdle
    /\ DIdle
    /\ SIdle

Cluster ==
    /\ stage = "input"
    /\ clusters' = clusterByDomain(messages)
    /\ stage' = "clustered"
    /\ UNCHANGED <<messages, existingFilters, trustedSenders, suggestions,
                   reportSuggestions, tvars>>
    /\ UNCHANGED <<svars, dvars>>

Suggest ==
    /\ stage = "clustered"
    /\ suggestions' = generateFilterSuggestions(clusters)
    /\ clusters' = clustersAfterSuggestions(clusters)
    /\ stage' = "suggested"
    /\ UNCHANGED <<messages, existingFilters, trustedSenders, reportSuggestions, tvars>>
    /\ UNCHANGED <<svars, dvars>>

NextCluster == Cluster \/ Suggest

SpecCluster == InitCluster /\ [][NextCluster]_vars

----------------------------------------------------------------------------
(* SpecGroup: clusterByDomain applied to inputs with several full domains
   under one root and with up to six senders at one full domain, and applied
   again to the member messages of the clusters it returned *)

GroupSenderList == <<aAtMail, noreplyAtMail, bAtAlerts>> \o NewsSenders

\* a@mail.x.com and noreply@mail.x.com have 0 or 7 messages, b@alerts.x.com
\* 0 or 4, each sender at news.example.com 0 or 1
GroupCounts ==
    {cnt \in [1..Len(GroupSenderList) -> {0, 1, 4, 7}] :
        /\ cnt[1] \in {0, 7} /\ cnt[2] \in {0, 7} /\ cnt[3] \in {0, 4}
        /\ \A s \in 4..Len(GroupSenderList) : cnt[s] \in {0, 1}}

\* the senders of the input list in the order of GroupSenderList, or reversed
groupLayout(cnt, reversed) ==
    LET n == Len(GroupSenderList)
        at(s) == IF reversed THEN n + 1 - s ELSE s
    IN  Flatten([s \in 1..n |-> [k \in 1..cnt[at(s)] |-> GroupSenderList[at(s)]]])

GroupInputs ==
    {messageList(groupLayout(cnt, reversed)) : cnt \in GroupCounts, reversed \in BOOLEAN}

\* Bound: the clusters clusterByDomain may be applied to again one at a time
MaxReclustered == 4

InitGroup ==
    /\ messages \in GroupInputs
    /\ stage = "input"
    /\ existingFilters = <<>>
    /\ trustedSenders = {}
    /\ clusters = <<>>
    /\ suggestions = <<>>
    /\ reportSuggestions = <<>>
    /\ TIdle
    /\ DIdle
    /\ SIdle

\* clusterByDomain applied to the member messages of cluster sel of its own
\* result, of all clusters together when sel = 0
Recluster(sel) ==
    /\ stage = "clustered"
    /\ sel <= Len(clusters)
    /\ LET members == IF sel = 0
                      THEN Flatten([i \in 1..Len(clusters) |-> clusters[i].messages])
                      ELSE clusters[sel].messages
       IN  /\ messages' = members
           /\ clusters' = clusterByDomain(members)
    /\ stage' = "reclustered"
    /\ UNCHANGED <<existingFilters, trustedSenders, suggestions, reportSuggestions, tvars>>
    /\ UNCHANGED <<svars, dvars>>

NextGroup ==
    \/ Cluster
    \/ \E sel \in 0..MaxReclustered : Recluster(sel)

SpecGroup == InitGroup /\ [][NextGroup]_vars

----------------------------------------------------------------------------
(* SpecSuggest: generateFilterSuggestions applied to cluster lists a caller
   may hand to it: the clusters of clusterByDomain, with suggestedAction as
   computed or set to another value of its type *)

SuggestCounts ==
    {cnt \in InputCounts :
        /\ \A s \in AutomatedIdx : cnt[s] \in {0, 3, 5}
        /\ \A s \in (1..Len(SenderList)) \ AutomatedIdx : cnt[s] \in {0, 2, 10}}

SuggestInputs == {messageList(blockLayout(cnt)) : cnt \in SuggestCounts}

SuggestedActions == {"archive", "label", "keep", "filter"}

\* Bound: the clusters whose suggestedAction may be set one at a time
MaxRelabel == 3

\* cs with suggestedAction a on cluster w, on every cluster when w = 0
relabel(cs, a, w) ==
    [i \in 1..Len(cs) |->
        IF w = 0 \/ w = i THEN [cs[i] EXCEPT !.suggestedAction = a] ELSE cs[i]]

ClusterLists(msgs) ==
    LET cs == clusterByDomain(msgs)
    IN  {cs} \cup {relabel(cs, a, w) : a \in SuggestedActions, w \in 0..MaxRelabel}

InitSuggest ==
    /\ messages \in SuggestInputs
    /\ stage = "clustered"
    /\ existingFilters = <<>>
    /\ trustedSenders = {}
    /\ clusters \in ClusterLists(messages)
    /\ suggestions = <<>>
    /\ reportSuggestions = <<>>
    /\ TIdle
    /\ DIdle
    /\ SIdle

NextSuggest == Suggest

SpecSuggest == InitSuggest /\ [][NextSuggest]_vars

----------------------------------------------------------------------------
(* SpecTrust: the trusted-senders route and lib/store, running next to one
   analyze request whose scan has collected a bounded working set *)

TrustCounts ==
    {cnt \in InputCounts :
        cnt[1] \in {0, 5} /\ cnt[2] \in {0, 2} /\ cnt[3] \in {0, 5} /\ cnt[4] = 2 /\ cnt[5] = 0}

TrustInputs == {messageList(blockLayout(cnt)) : cnt \in TrustCounts}

InitTrust ==
    /\ messages \in TrustInputs
    /\ stage = "idle"
    /\ existingFilters = <<>>
    /\ trustedSenders = {}
    /\ clusters = <<>>
    /\ suggestions = <<>>
    /\ reportSuggestions = <<>>
    /\ TIdle
    /\ DIdle
    /\ SIdle

\* the analyze request arrives and its scan starts
AnalyzeBegin ==
    /\ stage = "idle"
    /\ stage' = "scanned"
    /\ trustedAtStart' = StoredAddresses
    /\ UNCHANGED <<messages, existingFilters, trustedSenders, clusters, suggestions,
                   reportSuggestions, storeFile, storeCalls>>
    /\ UNCHANGED <<svars, dvars>>

\* "2. Fetch filters": Promise.all of gmail.getFilters() and the
\* trusted-sender load
AnalyzeLoad ==
    /\ stage = "scanned"
    /\ \E filters \in FilterLists : existingFilters' = filters
    /\ trustedSenders' = loadTrustedSenders(storeFile)
    /\ stage' = "loaded"
    /\ UNCHANGED <<messages, clusters, suggestions, reportSuggestions, tvars>>
    /\ UNCHANGED <<svars, dvars>>

\* "3. Filter actionable messages", "4. Cluster", "5. Generate suggestions"
\* and the existing-filter screen
AnalyzeReport ==
    /\ stage = "loaded"
    /\ LET actionable == actionableMessages(messages, trustedSenders)
           cs         == clusterByDomain(actionable)
           found      == generateFilterSuggestions(cs)
       IN  /\ clusters' = clustersAfterSuggestions(cs)
           /\ suggestions' = found
           /\ reportSuggestions' =
                 SelectSeq(found, LAMBDA x : ~filterByExistingCriteria(x, existingFilters))
    /\ stage' = "reported"
    /\ UNCHANGED <<messages, existingFilters, trustedSenders, tvars>>
    /\ UNCHANGED <<svars, dvars>>

NextTrust ==
    \/ \E req \in StoreRequests : StoreCall(req)
    \/ \E c \in 1..Len(storeCalls) : StoreRead(c)
    \/ \E c \in 1..Len(storeCalls) : StoreWrite(c)
    \/ AnalyzeBegin
    \/ AnalyzeLoad
    \/ AnalyzeReport

SpecTrust == InitTrust /\ [][NextTrust]_vars

----------------------------------------------------------------------------
(* Spec: one request to the analyze route or to the actions route, its
   mailbox and the consumer of its progress stream *)

Requests == {request("analyze")} \cup ActionRequests

Init ==
    /\ RIdle
    /\ TIdle
    /\ DIdle
    /\ \E b \in Requests : SInit(b, "start")

\* new ReadableStream({ start }): start() runs to its first await
Start ==
    /\ pc = "start"
    /\ Become(catch(IF body.action = "analyze" THEN startAnalyze(St) ELSE process(St)))
    /\ UNCHANGED <<tvars, dvars>>

StatsDone(ok) ==
    /\ pc = "stats"
    /\ Become(catch(statsDone(St, ok)))
    /\ UNCHANGED <<tvars, dvars>>

ListDone(response) ==
    /\ pc = "list"
    /\ response \in ListResponses(
            IF body.action = "analyze" THEN batchSize(targetCount - Len(allMessages))
            ELSE GmailPageLimit, pageToken)
    /\ Become(catch(listDone(St, response)))
    /\ UNCHANGED <<tvars, dvars>>

FetchDone(p, response) ==
    /\ pc = "fetch"
    /\ p \in DOMAIN batchResults
    /\ batchResults[p] = Pending
    /\ response \in FetchResponses(Cardinality(seenIds), Repeats, p)
    /\ Become(catch(fetchDone(St, p, response)))
    /\ UNCHANGED <<tvars, dvars>>

FiltersDone(response) ==
    /\ pc = "filters"
    /\ Become(catch(filtersDone(St, response, storeFile)))
    /\ UNCHANGED <<tvars, dvars>>

TotalDone(response, matches) ==
    /\ pc = "count"
    /\ Become(catch(totalDone(St, response, matches)))
    /\ UNCHANGED <<tvars, dvars>>

LookupDone(c, response) ==
    /\ pc = "metrics"
    /\ c \in DOMAIN lookups
    /\ \/ lookups[c].at = "probe" /\ response \in ProbeResponses
       \/ lookups[c].at = "full" /\ response \in FullResponses
    /\ Become(catch(lookupDone(St, c, response)))
    /\ UNCHANGED <<tvars, dvars>>

OrphanDone(at, response) ==
    /\ orphans[at] > 0
    /\ \/ at = "probe" /\ response \in ProbeResponses
       \/ at = "full" /\ response \in FullResponses
    /\ Become(orphanDone(St, at, response))
    /\ UNCHANGED <<tvars, dvars>>

EstimateDone(response) ==
    /\ pc = "estimate"
    /\ Become(catch(estimateDone(St, response)))
    /\ UNCHANGED <<tvars, dvars>>

MutateDone(ok) ==
    /\ pc = "mutate"
    /\ Become(catch(mutateDone(St, ok)))
    /\ UNCHANGED <<tvars, dvars>>

FilterCreated(ok) ==
    /\ pc = "createFilter"
    /\ Become(catch(filterCreated(St, ok)))
    /\ UNCHANGED <<tvars, dvars>>

ArchiveDone(ok) ==
    /\ pc = "archive"
    /\ Become(catch(archiveDone(St, ok)))
    /\ UNCHANGED <<tvars, dvars>>

\* the setTimeout start() awaits has elapsed
TimerElapsed ==
    /\ pc \in Timers
    /\ Become(catch(resume(St)))
    /\ UNCHANGED <<tvars, dvars>>

\* the consumer of the progress stream cancels it
Cancel ==
    /\ pc \notin {"start", "done", "aborted"}
    /\ streamState = "readable"
    /\ Become([St EXCEPT !.streamState = "cancelled"])
    /\ UNCHANGED <<tvars, dvars>>

\* start() runs on: a mailbox call answers or a timer elapses
Proceed ==
    \/ Start
    \/ \E ok \in BOOLEAN : StatsDone(ok)
    \/ \E response \in ListResponses(GmailPageLimit, 0) : ListDone(response)
    \/ \E p \in 1..BATCH_SIZE :
          \E response \in FetchResponses(Cardinality(seenIds), Repeats, p) :
              FetchDone(p, response)
    \/ TimerElapsed
    \/ \E response \in FilterResponses : FiltersDone(response)
    \/ \E matches \in MatchCounts :
          \E response \in TotalResponses(matches) : TotalDone(response, matches)
    \/ \E c \in 1..Len(MetricCategories) :
          \E response \in ProbeResponses \cup FullResponses : LookupDone(c, response)
    \/ \E at \in {"probe", "full"} :
          \E response \in ProbeResponses \cup FullResponses : OrphanDone(at, response)
    \/ \E response \in EstimateResponses : EstimateDone(response)
    \/ \E ok \in BOOLEAN : MutateDone(ok)
    \/ \E ok \in BOOLEAN : FilterCreated(ok)
    \/ \E ok \in BOOLEAN : ArchiveDone(ok)

Next == Proceed \/ Cancel

Spec == Init /\ [][Next]_vars

\* start() awaits an answer or a timer: the guards of the disjuncts of Proceed
awaits ==
    \/ pc \in {"start", "stats", "list", "filters", "count", "estimate",
               "mutate", "createFilter", "archive"} \cup Timers
    \/ pc = "fetch" /\ \E p \in DOMAIN batchResults : batchResults[p] = Pending
    \/ pc = "metrics" /\ DOMAIN lookups # {}
    \/ \E at \in {"probe", "full"} : orphans[at] > 0

\* Every mailbox call start() awaits answers and every timer elapses: weak
\* fairness of Proceed, WF_vars(Proceed), with ENABLED <<Proceed>>_vars
\* written as the state predicate awaits
Answered == []<>(~awaits) \/ []<><<Proceed>>_vars

SpecFair == Spec /\ Answered

----------------------------------------------------------------------------
(* SpecReconcile: an analyze request from the end of its scan on: the
   filters, the report pipeline and the count reconciliation, on working
   sets that yield up to three suggestions *)

\* the working sets the scan has collected: their sizes
ScanSizes == {5, 11, 16}

NoReplyMixedCase == <<"N","o","R","e","p","l","y","@","M","a","i","l",".","x",".","c","o","m">>
mailDomain == <<"m","a","i","l",".","x",".","c","o","m">>
promoOrReset == toLowerCase(PromoAtMail) \o <<" ","O","R"," ">> \o resetAtAlerts

\* what getFilters may answer: the from criteria of each filter, the empty
\* string for a filter without from criteria
ReconcileFilterResponses ==
    {[ok |-> FALSE, filters |-> <<>>]}
        \cup {[ok |-> TRUE, filters |-> f] :
                f \in { <<>>, <<NoReplyMixedCase>>, <<mailDomain, promoOrReset>>,
                        << <<>>, mailDomain >> }}

\* start() is suspended at the Promise.all of "2. Fetch filters"
InitReconcile ==
    /\ RIdle
    /\ TIdle
    /\ DIdle
    /\ body = request("analyze") /\ pc = "filters"
    /\ out = <<progress("Checking filters")>> /\ streamState = "readable" /\ err = ""
    /\ \E n \in ScanSizes : allMessages = [k \in 1..n |-> k]
    /\ seenIds = Range(allMessages)
    /\ totalProcessed = 0 /\ catIdx = 0 /\ pageToken = 0 /\ consecutiveEmptyBatches = 0
    /\ page = NoPage /\ batchStart = 0 /\ fetched = 0 /\ batchResults = <<>>
    /\ accurate = <<>> /\ sIdx = 0 /\ total = NoCount /\ lookups = <<>>
    /\ orphans = [probe |-> 0, full |-> 0] /\ clusterData = <<>> /\ cIdx = 0
    /\ archivedCount = 0 /\ mutations = NoMutations /\ fellBack = NoFallback
    /\ matched = {}
    /\ calledAfterCancel = FALSE /\ catEmpty = 0 /\ fetchFailed = FALSE /\ lost = FALSE

\* the count lookups answer a failure, an empty category or 3 messages
NextReconcile ==
    \/ \E response \in ReconcileFilterResponses : FiltersDone(response)
    \/ \E response \in TotalResponses(3) : TotalDone(response, 3)
    \/ \E c \in 1..Len(MetricCategories) :
          \E response \in {Failure, [ok |-> TRUE, count |-> 0, more |-> FALSE]} :
              LookupDone(c, response)
    \/ \E response \in {Failure, [ok |-> TRUE, count |-> 0, more |-> FALSE]} :
          OrphanDone("probe", response)
    \/ \E response \in {Failure, [ok |-> TRUE, count |-> 3, more |-> FALSE]} :
          EstimateDone(response)
    \/ TimerElapsed

SpecReconcile == InitReconcile /\ [][NextReconcile]_vars

\* address a occurs in a cluster of the report
InClusters(a) ==
    \E i \in 1..Len(clusters) :
        \/ "allSenders" \in DOMAIN clusters[i] /\ a \in Range(clusters[i].allSenders)
        \/ \E k \in 1..Len(clusters[i].senderDetails) : clusters[i].senderDetails[k].email = a
        \/ \E k \in 1..Len(clusters[i].messages) : clusters[i].messages[k].fromEmail = a

\* address a occurs in a filter suggestion of the report
InSuggestions(a) ==
    \E i \in 1..Len(reportSuggestions) :
        \/ reportSuggestions[i].criteria.from = a
        \/ \E k \in 1..Len(reportSuggestions[i].senderDetails) :
              reportSuggestions[i].senderDetails[k].email = a

\* C1: an address stored through addTrustedSenders before the analyze
\* request started (and never handed to removeTrustedSender) appears in no
\* cluster and in no filter suggestion of that request's report.
C1_TrustedSendersExcluded ==
    stage = "reported" =>
        \A a \in trustedAtStart \ RemovedAddresses : ~InClusters(a) /\ ~InSuggestions(a)

----------------------------------------------------------------------------
(* Properties of clusterByDomain and generateFilterSuggestions (SpecCluster) *)

\* isLikelyImportant on the mailbox's senders
isSensitive(e) == Important[e]

Clustered == stage \in {"clustered", "suggested"}

senderDetailsOf(x) == [i \in 1..Len(x.senderDetails) |-> x.senderDetails[i]]

\* C2: in every cluster returned by clusterByDomain, automated or personal,
\* count equals the number of member messages and equals the sum of count
\* over the cluster's senderDetails entries.
C2_ClusterCountInvariant ==
    Clustered =>
        \A i \in 1..Len(clusters) :
            /\ clusters[i].count = Len(clusters[i].messages)
            /\ clusters[i].count =
                  Sum([k \in 1..Len(clusters[i].senderDetails) |->
                          clusters[i].senderDetails[k].count])

\* C2 witness: clusterByDomain has returned a grouped automated cluster with
\* senders of different counts together with a personal cluster.
C2_Witness ==
    /\ stage = "clustered"
    /\ \E i \in 1..Len(clusters) :
          /\ clusters[i].isGrouped
          /\ Len(clusters[i].senderDetails) >= 3
          /\ clusters[i].senderDetails[1].count > clusters[i].senderDetails[2].count
    /\ \E i \in 1..Len(clusters) :
          clusters[i].suggestedAction = "label" /\ clusters[i].count = 10

\* C3: no senderDetails entry of a cluster or of a suggestion whose email
\* matches isLikelyImportant has shouldArchive = TRUE, also when the sender
\* matches isLikelyAutomated as well.
C3_SensitiveNeverArchived ==
    /\ \A i \in 1..Len(clusters) : \A k \in 1..Len(clusters[i].senderDetails) :
          isSensitive(clusters[i].senderDetails[k].email)
              => ~clusters[i].senderDetails[k].shouldArchive
    /\ \A i \in 1..Len(suggestions) : \A k \in 1..Len(suggestions[i].senderDetails) :
          isSensitive(suggestions[i].senderDetails[k].email)
              => ~suggestions[i].senderDetails[k].shouldArchive

\* C3 witness: a sender that is both automated and important is listed in a
\* suggestion, and a personal important sender in another.
C3_Witness ==
    /\ stage = "suggested"
    /\ \E i \in 1..Len(suggestions) : \E k \in 1..Len(suggestions[i].senderDetails) :
          LET e == suggestions[i].senderDetails[k].email
          IN  isSensitive(e) /\ Automated[e]
    /\ \E i \in 1..Len(suggestions) : \E k \in 1..Len(suggestions[i].senderDetails) :
          LET e == suggestions[i].senderDetails[k].email
          IN  isSensitive(e) /\ ~Automated[e]

\* the number of messages of a cluster sent by address e
countFrom(cluster, e) ==
    Cardinality({k \in 1..Len(cluster.messages) : cluster.messages[k].fromEmail = e})

sendersOf(cluster) == {cluster.messages[k].fromEmail : k \in 1..Len(cluster.messages)}

\* a grouped cluster with suggestedAction = filter and count >= 5 that holds
\* at least one sensitive and at least one non-sensitive sender
MixedCluster(cluster) ==
    /\ cluster.isGrouped
    /\ cluster.suggestedAction = "filter"
    /\ cluster.count >= 5
    /\ \E e \in sendersOf(cluster) : isSensitive(e)
    /\ \E e \in sendersOf(cluster) : ~isSensitive(e)

suggestionsFrom(from) == {i \in 1..Len(suggestions) : suggestions[i].criteria.from = from}

\* C4: for a mixed cluster generateFilterSuggestions emits no wildcard
\* suggestion; it emits exactly one suggestion for each member sender with
\* count >= 5 (criteria.from that address, senderDetails that single sender)
\* and none for the senders with count < 5.
C4_MixedClusterSplit ==
    stage = "suggested" =>
        \A i \in 1..Len(clusters) :
            MixedCluster(clusters[i]) =>
                /\ suggestionsFrom(<<"*">> \o clusters[i].domain) = {}
                /\ suggestionsFrom(clusters[i].sender) = {}
                /\ \A e \in sendersOf(clusters[i]) :
                      IF countFrom(clusters[i], e) >= 5
                      THEN /\ Cardinality(suggestionsFrom(e)) = 1
                           /\ \A j \in suggestionsFrom(e) :
                                 /\ Len(suggestions[j].senderDetails) = 1
                                 /\ suggestions[j].senderDetails[1].email = e
                                 /\ suggestions[j].senderDetails[1].count
                                        = countFrom(clusters[i], e)
                      ELSE suggestionsFrom(e) = {}

\* C4 witness: a mixed cluster with a sensitive and a non-sensitive sender
\* of 5 messages each and a third sender below 5 has been split.
C4_Witness ==
    /\ stage = "suggested"
    /\ \E i \in 1..Len(clusters) :
          /\ MixedCluster(clusters[i])
          /\ \E e \in sendersOf(clusters[i]) :
                isSensitive(e) /\ countFrom(clusters[i], e) >= 5
          /\ \E e \in sendersOf(clusters[i]) :
                ~isSensitive(e) /\ countFrom(clusters[i], e) >= 5
          /\ \E e \in sendersOf(clusters[i]) : countFrom(clusters[i], e) < 5

----------------------------------------------------------------------------
(* Properties of the scan and of the progress stream, checked under Spec *)

analyzing == body.action = "analyze"

\* C5: at every point of an analyze scan the working set holds no two
\* messages with the same id and at most targetCount messages.
C5_WorkingSetBounded ==
    /\ \A i, j \in 1..Len(allMessages) : i # j => allMessages[i] # allMessages[j]
    /\ Len(allMessages) <= targetCount
    /\ seenIds = Range(allMessages)

\* a later category has offered messages that were already collected, and
\* the working set is one message short of the target
C5_Witness ==
    /\ analyzing
    /\ catIdx > 1
    /\ Repeats > 0
    /\ Len(allMessages) = targetCount - 1

\* C6: once the first FatigueLimit sub-batches of a category have each added
\* no new message, no further sub-batch of the category is fetched and no
\* further page of it is listed.
C6_FatigueStopsCategory ==
    (analyzing /\ catEmpty = FatigueLimit) => pc \notin {"fetch", "list"}

\* C7: a failed messages.get never reaches the catch of the scan, the other
\* messages of its sub-batch are delivered, and a scan in which nothing else
\* failed ends with a result record.
C7_FetchFailureNotFatal ==
    /\ err # "messages.get"
    /\ ~lost
    /\ (analyzing /\ fetchFailed /\ pc = "done" /\ err = "")
          => out[Len(out)].type = "result"

\* a scan with a failed fetch has collected messages and written its result
C7_Witness ==
    /\ analyzing
    /\ fetchFailed
    /\ pc = "done"
    /\ Len(allMessages) >= 2
    /\ out[Len(out)].type = "result"

\* C8: a failure of messages.list during the scan does not end the scan
\* with an error record.
C8_ListFailureSkipsCategory ==
    ~(analyzing /\ err = "messages.list" /\ \E i \in 1..Len(out) : out[i].type = "error")

terminals == {i \in 1..Len(out) : out[i].type \in {"result", "error"}}

ended == pc \in {"done", "aborted"}

\* C9 as stated: every progress stream ends with exactly one terminal
\* record, and no record follows the terminal record.
C9_OneTerminalRecord ==
    /\ Cardinality(terminals) <= 1
    /\ \A i \in terminals : i = Len(out)
    /\ ended => Cardinality(terminals) = 1

\* C9, amended: every progress stream its consumer has not cancelled ends
\* with exactly one terminal record, written before the stream is closed,
\* and on every stream no record follows a terminal record.
C9_OneTerminalUnlessCancelled ==
    /\ Cardinality(terminals) <= 1
    /\ \A i \in terminals : i = Len(out)
    /\ (ended /\ streamState # "cancelled") => Cardinality(terminals) = 1
    /\ streamState = "closed" => (ended /\ Cardinality(terminals) = 1)

\* an action request has paged, archived and closed its stream on a result
C9_Witness ==
    /\ body.action = "archiveFromSender"
    /\ archivedCount > 0
    /\ streamState = "closed"
    /\ Len(out) >= 2
    /\ out[Len(out)].type = "result"

\* C10: after the consumer has cancelled the stream of a scan, the scan
\* issues no mailbox call and writes no result record.
C10_CancelStopsScan ==
    analyzing =>
        /\ ~calledAfterCancel
        /\ streamState = "cancelled" => \A i \in 1..Len(out) : out[i].type # "result"

----------------------------------------------------------------------------
(* Properties of generateFilterSuggestions on any cluster list (SpecSuggest) *)

\* the criteria.from generateFilterSuggestions gives the suggestions of a
\* cluster: the wildcard or the sender of the cluster, or a member address
fromOf(cluster) ==
    {IF cluster.isGrouped THEN <<"*">> \o cluster.domain ELSE cluster.sender}
        \cup {cluster.senderDetails[k].email : k \in 1..Len(cluster.senderDetails)}

\* C11: every suggestion generateFilterSuggestions emits comes from a cluster
\* whose suggestedAction is filter and whose count is at least 5 and has
\* matchCount >= 5; a cluster with another suggestedAction, or with count
\* below 5 even when its suggestedAction is filter, yields no suggestion.
C11_SuggestionThreshold ==
    stage = "suggested" =>
        /\ \A j \in 1..Len(suggestions) :
              /\ suggestions[j].matchCount >= 5
              /\ \E i \in 1..Len(clusters) :
                    /\ suggestions[j].criteria.from \in fromOf(clusters[i])
                    /\ clusters[i].suggestedAction = "filter"
                    /\ clusters[i].count >= 5
        /\ \A i \in 1..Len(clusters) :
              ~(clusters[i].suggestedAction = "filter" /\ clusters[i].count >= 5)
                  => \A j \in 1..Len(suggestions) :
                        suggestions[j].criteria.from \notin fromOf(clusters[i])

\* generateFilterSuggestions has returned a suggestion for a list that also
\* holds a cluster of count below 5 with suggestedAction filter and a
\* cluster of count 5 or more with another suggestedAction
C11_Witness ==
    /\ stage = "suggested"
    /\ suggestions # <<>>
    /\ \E i \in 1..Len(clusters) :
          clusters[i].suggestedAction = "filter" /\ clusters[i].count < 5
    /\ \E i \in 1..Len(clusters) :
          clusters[i].suggestedAction # "filter" /\ clusters[i].count >= 5

----------------------------------------------------------------------------
(* Properties of the final report (SpecReconcile) *)

\* the result records of the stream
results == {i \in 1..Len(out) : out[i].type = "result"}

\* criteria.from equals the from criteria of an existing filter, or is
\* contained in it, letter case ignored
Covered(from) ==
    \E i \in 1..Len(existingFilters) :
        LET f == toLowerCase(existingFilters[i])
            g == toLowerCase(from)
        IN  f # <<>> /\ (f = g \/ includes(f, g))

\* the generated suggestions no existing filter covers, in order
Remaining == SelectSeq(suggestions, LAMBDA x : ~Covered(x.criteria.from))

\* C12: no suggestion of the final report has a criteria.from that an
\* existing filter covers, and each of the first 10 suggestions not covered
\* is in the final report exactly once.
C12_CoveredSuggestionsExcluded ==
    \A r \in results :
        LET final == out[r].data.filterSuggestions
        IN  /\ \A j \in 1..Len(final) : ~Covered(final[j].criteria.from)
            /\ \A k \in 1..Min(10, Len(Remaining)) :
                  Cardinality({j \in 1..Len(final) : final[j].id = Remaining[k].id}) = 1

\* a report was written in which a filter that contains two of the three
\* generated suggestions' senders, one of them in another letter case, has
\* removed both, and a filter that is itself contained in the third
\* suggestion's sender has not removed the third
C12_Witness ==
    /\ results # {}
    /\ Len(suggestions) = 3
    /\ Len(existingFilters) = 2
    /\ Len(Remaining) = 1
    /\ \A r \in results : Len(out[r].data.filterSuggestions) = 1

----------------------------------------------------------------------------
(* Properties of the actions route (Spec) *)

mutationFailed == err \in {"batchModify", "filters.create"}

\* every mutating call is issued at most once: one filters.create, one
\* batchModify for the id list of the request, one for the id list of each
\* listed page
issuedOnce ==
    /\ mutations.create <= 1
    /\ body.action \in {"archive", "applyLabel"} => mutations.modify <= 1
    /\ body.action \in {"createFilter", "archiveFromSender"}
          => mutations.modify <= pageToken + 1
    /\ body.action \in {"archive", "applyLabel", "archiveFromSender"}
          => mutations.create = 0

\* C13 as stated: each mutating call of an action is issued at most once and
\* never retried, and when it fails the stream ends with an error record
\* that carries the original error text, and with no result record.
C13_MutationFailureReported ==
    /\ issuedOnce
    /\ mutationFailed =>
          /\ ended
          /\ results = {}
          /\ out # <<>>
          /\ out[Len(out)] = [type |-> "error", error |-> err]

\* C13, amended: each mutating call of an action is issued at most once and
\* never retried; when it fails no further call is issued, no result record
\* is written, and unless the consumer has cancelled the stream the stream
\* ends with an error record that carries the original error text.
C13_MutationFailureReportedUnlessCancelled ==
    /\ issuedOnce
    /\ mutationFailed =>
          /\ ended
          /\ results = {}
          /\ streamState # "cancelled"
                => out # <<>> /\ out[Len(out)] = [type |-> "error", error |-> err]
          /\ streamState = "cancelled" => terminals = {}

\* the batchModify of the second page of an archiveFromSender request has
\* failed after the first page was archived, and the stream has ended with
\* the error record
C13_Witness ==
    /\ body.action = "archiveFromSender"
    /\ err = "batchModify"
    /\ archivedCount > 0
    /\ mutations.modify = 2
    /\ pc = "done"
    /\ out[Len(out)] = [type |-> "error", error |-> "batchModify"]

\* C14: a label mutation over a list of message ids is applied in calls of
\* at most BatchModifyLimit ids each, and a failing call is not thrown to the
\* action but answered with the number of messages modified.
C14_ChunkedMutation ==
    /\ mutations.ids <= BatchModifyLimit
    /\ err # "batchModify"

----------------------------------------------------------------------------
(* Properties of the root-domain grouping (SpecGroup) *)

idsOf(msgs) == {msgs[k].id : k \in 1..Len(msgs)}

\* the automated messages of the input, and their root and full domains
automatedOf(msgs) == SelectSeq(msgs, LAMBDA m : Automated[m.fromEmail])

underRoot(msgs, root) == SelectSeq(automatedOf(msgs), LAMBDA m : RootDomain[m.fromDomain] = root)

atDomain(msgs, fd) == SelectSeq(automatedOf(msgs), LAMBDA m : m.fromDomain = fd)

\* exactly one cluster holds messages of msgs; it holds all of them and no
\* other message, under the domain key
oneCluster(msgs, key) ==
    LET holding == {i \in 1..Len(clusters) : idsOf(clusters[i].messages) \cap idsOf(msgs) # {}}
    IN  /\ Cardinality(holding) = 1
        /\ \A i \in holding :
              /\ idsOf(clusters[i].messages) = idsOf(msgs)
              /\ clusters[i].count = Len(msgs)
              /\ clusters[i].domain = key

\* the rule: a root is merged when it has two or more full domains, or one
\* full domain with five or more sender addresses
rootMergeRule ==
    \A root \in {RootDomain[m.fromDomain] : m \in Range(automatedOf(messages))} :
        LET group   == underRoot(messages, root)
            domains == {group[k].fromDomain : k \in 1..Len(group)}
            senders == {group[k].fromEmail : k \in 1..Len(group)}
        IN  IF Cardinality(domains) >= 2 \/ Cardinality(senders) >= 5
            THEN /\ oneCluster(group, root)
                 /\ \A i \in 1..Len(clusters) :
                       idsOf(clusters[i].messages) = idsOf(group) => clusters[i].isGrouped
            ELSE \A fd \in domains : oneCluster(atDomain(messages, fd), fd)

\* the input holds n messages of sender e
has(e, n) == Cardinality({k \in 1..Len(messages) : messages[k].fromEmail = e}) = n

groupedOf(n) == \E i \in 1..Len(clusters) : clusters[i].count = n /\ clusters[i].isGrouped

\* six senders at news.example.com with one message each give one grouped
\* cluster of count 6
sixSendersExample ==
    (\A k \in 1..Len(NewsSenders) : has(NewsSenders[k], 1)) => groupedOf(6)

\* C15 as stated: the rule, and the examples with the senders as written:
\* a@mail.x.com (7) and b@alerts.x.com (4) give one grouped cluster of count
\* 11.
C15_RootMergeAsStated ==
    stage = "clustered" =>
        /\ rootMergeRule
        /\ sixSendersExample
        /\ (has(aAtMail, 7) /\ has(bAtAlerts, 4) /\ has(noreplyAtMail, 0)) => groupedOf(11)

\* C15, amended: the rule among the messages isLikelyAutomated accepts, and
\* the examples with automated senders: noreply@mail.x.com (7) and
\* b@alerts.x.com (4) give one grouped cluster of count 11, while
\* a@mail.x.com, which isLikelyAutomated rejects, stays out of it as a
\* personal cluster of its own.
C15_RootMergeRule ==
    stage = "clustered" =>
        /\ rootMergeRule
        /\ sixSendersExample
        /\ (has(noreplyAtMail, 7) /\ has(bAtAlerts, 4)) => groupedOf(11)
        /\ has(aAtMail, 7) =>
              \E i \in 1..Len(clusters) :
                  /\ clusters[i].sender = aAtMail
                  /\ clusters[i].count = 7
                  /\ ~clusters[i].isGrouped

\* clusterByDomain has merged noreply@mail.x.com (7) with b@alerts.x.com (4)
\* and the six senders at news.example.com, next to a@mail.x.com
C15_Witness ==
    /\ stage = "clustered"
    /\ has(aAtMail, 7) /\ has(noreplyAtMail, 7) /\ has(bAtAlerts, 4)
    /\ \A k \in 1..Len(NewsSenders) : has(NewsSenders[k], 1)
    /\ groupedOf(11)
    /\ groupedOf(6)
    /\ Len(clusters) = 3

\* the grouping of a cluster list: per cluster its messages, its domain key
\* and isGrouped
groupingOf(cs) ==
    {<<idsOf(cs[i].messages), cs[i].domain, cs[i].isGrouped>> : i \in 1..Len(cs)}

\* C16: clusterByDomain applied to the member messages of one cluster it
\* returned gives that cluster alone, and applied to the member messages of
\* all its clusters gives the same clusters: the same messages per cluster
\* with the same domain key and isGrouped.
C16_ReclusterIdempotent ==
    [][stage' = "reclustered" =>
          LET one == {i \in 1..Len(clusters) : messages' = clusters[i].messages}
          IN  IF one # {}
              THEN /\ Len(clusters') = 1
                   /\ \A i \in one :
                         groupingOf(clusters') = groupingOf(<<clusters[i]>>)
              ELSE /\ Len(clusters') = Len(clusters)
                   /\ groupingOf(clusters') = groupingOf(clusters)]_vars

\* clusterByDomain has been applied again to the messages of a merged root,
\* of a merged single full domain and of a personal sender together
C16_Witness ==
    /\ stage = "reclustered"
    /\ Len(clusters) = 3
    /\ groupedOf(11)
    /\ groupedOf(6)

----------------------------------------------------------------------------
(* Properties of the scan's progress records and of getMessages (Spec) *)

lastRecord(o) == o[Len(o)]

isScanning(o) == o # <<>> /\ lastRecord(o).type = "progress" /\ lastRecord(o).stage = "Scanning"

pending == {q \in DOMAIN batchResults : batchResults[q] = Pending}

failed == {q \in DOMAIN batchResults : batchResults[q] = Null}

\* C17: when the last fetch of a sub-batch of k ids answers, the scanned
\* count of the progress records has grown by k, failed fetches included,
\* and the collected count by at most k less the failed fetches.
C17_FailedFetchCountsAsScanned ==
    [][(/\ analyzing /\ pc = "fetch" /\ streamState = "readable"
        /\ Cardinality(pending) = 1 /\ batchResults' # batchResults
        /\ isScanning(out) /\ isScanning(out'))
          => /\ lastRecord(out').scanned = lastRecord(out).scanned + Len(batchResults)
             /\ lastRecord(out').collected - lastRecord(out).collected
                    <= Len(batchResults) - Cardinality(failed)]_vars

\* C18: the consecutive-empty-batch counter is reset when a category starts
\* and at no page boundary: while every sub-batch of the current category
\* so far has added no message, the counter is the number of these
\* sub-batches, over all pages of the category.
C18_FatigueCarriedAcrossPages ==
    (analyzing /\ pc \in {"list", "fetch", "delay"} /\ catEmpty >= 0 /\ catEmpty < FatigueLimit)
        => consecutiveEmptyBatches = catEmpty

\* C19: after every step at most BATCH_SIZE metadata fetches are in flight,
\* fetches are in flight only while getMessages awaits the Promise.all of a
\* sub-batch, and a sub-batch is issued either as the first of a page, when messages.list
\* answers, or after the delay step that follows the completion of every
\* fetch of the sub-batch before it.
C19_SubBatchesSequential ==
    [][/\ Len(batchResults') <= BATCH_SIZE
       /\ Cardinality({q \in DOMAIN batchResults' : batchResults'[q] = Pending}) <= BATCH_SIZE
       /\ (pc' # "fetch" => batchResults' = <<>>)
       /\ (pc' = "fetch" => \E q \in DOMAIN batchResults' : batchResults'[q] = Pending)
       /\ (pc' = "fetch" /\ pc # "fetch")
             => \/ pc = "list" /\ batchStart' = 0
                \/ pc = "delay" /\ batchStart' = batchStart /\ batchStart > 0]_vars

\* a full sub-batch that is not the first of its page is in flight in a
\* later category of a scan
C19_Witness ==
    /\ analyzing
    /\ catIdx >= 2
    /\ pc = "fetch"
    /\ batchStart > 0
    /\ Cardinality(pending) = BATCH_SIZE

----------------------------------------------------------------------------
(* Properties of the count reconciliation (Spec) *)

\* the count lookups of the reconciliation step that have been issued and
\* have not answered: the total of a suggestion, the category chains of its
\* Promise.all, the chains a rejected Promise.all left running, and the
\* estimate of a cluster
lookupsInFlight ==
    (IF pc = "count" THEN 1 ELSE 0)
        + Cardinality({c \in DOMAIN lookups : lookups[c].at \in {"probe", "full"}})
        + orphans.probe + orphans.full
        + (IF pc = "estimate" THEN 1 ELSE 0)

\* C20: during count reconciliation at most one count lookup is in flight.
C20_LookupsOneAtATime == analyzing => lookupsInFlight <= 1

----------------------------------------------------------------------------
(* Fallbacks of the count reconciliation (SpecReconcile) *)

\* the payload of the result record
report == out[CHOOSE i \in results : TRUE].data

\* the entries of the report's filterSuggestions for the suggestion x
reportedAs(x) ==
    {j \in 1..Len(report.filterSuggestions) :
        report.filterSuggestions[j].criteria.from = x.criteria.from}

----------------------------------------------------------------------------
(* getMessageCount and the count display of a reconciled suggestion (Spec) *)

\* the entries of suggestionsWithAccurateCounts for position i of top10
reconciledAs(i) ==
    {j \in 1..Len(accurate) :
        accurate[j].criteria.from = reportSuggestions[i].criteria.from}

\* C22: the total lookup getMessageCount(query, cap) returns a count of at
\* most cap, the number of matching messages when they are no more than
\* cap, and reports more available exactly when more messages match than
\* it counted; a reconciled suggestion carries that count as matchCount and
\* is displayed as "500+" exactly when more are available, with the decimal
\* count otherwise.
C22_CountAndDisplay ==
    \A lookup \in matched :
        LET i == lookup[1]
            matches == lookup[2]
        IN  /\ (pc = "metrics" /\ sIdx = i) =>
                  /\ total.count <= GmailPageLimit
                  /\ total.count = Min(matches, GmailPageLimit)
                  /\ total.more = (matches > total.count)
            /\ i \notin fellBack.suggestions =>
                  \A j \in reconciledAs(i) :
                      /\ accurate[j].matchCount = Min(matches, GmailPageLimit)
                      /\ (accurate[j].description.countDisplay = <<"5","0","0","+">>)
                            = (matches > accurate[j].matchCount)
                      /\ matches <= accurate[j].matchCount =>
                            accurate[j].description.countDisplay = toString(matches)

\* C22 witness: the report holds a suggestion reconciled against a mailbox
\* in which exactly cap messages match its query.
C22_Witness ==
    /\ pc = "done"
    /\ \E lookup \in matched :
          /\ lookup[2] = GmailPageLimit
          /\ lookup[1] \notin fellBack.suggestions
          /\ \E j \in reconciledAs(lookup[1]) :
                accurate[j].description.countDisplay = toString(GmailPageLimit)

----------------------------------------------------------------------------
(* The display sender of an automated cluster (SpecGroup) *)

fullDomainsOf(cluster) == {cluster.messages[k].fromDomain : k \in 1..Len(cluster.messages)}

\* the display sender the three cases name for an automated cluster
displayAsStated(cluster) ==
    LET fds == fullDomainsOf(cluster)
        fd  == CHOOSE d \in fds : TRUE
    IN  IF Cardinality(fds) >= 2 THEN <<"*","@","*",".">> \o RootDomain[fd]
        ELSE IF Cardinality(sendersOf(cluster)) > 1 THEN <<"*","@">> \o fd
        ELSE cluster.messages[1].fromEmail

\* C23: the display sender of an automated cluster is *@*.<root> when the
\* cluster merges two or more full domains under one root, *@<domain> with
\* the full domain when it comes from a single full domain with more than
\* one sender, whatever their number, and the sender address when it has a
\* single sender.
C23_DisplaySender ==
    stage \in {"clustered", "reclustered"} =>
        \A i \in 1..Len(clusters) :
            "allSenders" \in DOMAIN clusters[i]
                => clusters[i].sender = displayAsStated(clusters[i])

----------------------------------------------------------------------------
(* latestMessageId of a suggestion (SpecCluster) *)

\* the input messages a suggestion is about: those of the senders it lists
aboutOf(suggestion) ==
    SelectSeq(messages, LAMBDA m :
        \E k \in 1..Len(suggestion.senderDetails) :
            suggestion.senderDetails[k].email = m.fromEmail)

\* suggestion carries the id of the latest of the messages it is about
carriesLatest(suggestion) ==
    /\ "latestMessageId" \in DOMAIN suggestion
    /\ \E k \in 1..Len(aboutOf(suggestion)) :
          /\ aboutOf(suggestion)[k].id = suggestion.latestMessageId
          /\ \A j \in 1..Len(aboutOf(suggestion)) :
                aboutOf(suggestion)[j].date <= aboutOf(suggestion)[k].date

\* C24: every suggestion generateFilterSuggestions returns, the per-sender
\* suggestions of a split mixed cluster included, carries a latestMessageId,
\* the id of the message with the greatest date among the messages the
\* suggestion is about.
C24_LatestMessageId ==
    stage = "suggested" => \A i \in 1..Len(suggestions) : carriesLatest(suggestions[i])

----------------------------------------------------------------------------
(* The counts of the scan's progress records (Spec) *)

\* C25: when the last fetch of a sub-batch answers on a readable stream and
\* the scan goes on, the stream's last record is a Scanning record with the
\* messages fetched and the messages collected so far; from one Scanning
\* record to the next neither count decreases; in every Scanning record
\* collected <= scanned and collected <= target.
C25_ProgressCounts ==
    [][(analyzing /\ streamState' = "readable") =>
          /\ (/\ pc = "fetch" /\ Cardinality(pending) = 1 /\ batchResults' # batchResults
              /\ pc' \in {"delay", "list"})
                => /\ isScanning(out')
                   /\ lastRecord(out').scanned = totalProcessed' + fetched'
                   /\ lastRecord(out').collected = Len(allMessages')
          /\ (isScanning(out) /\ isScanning(out'))
                => /\ lastRecord(out').scanned >= lastRecord(out).scanned
                   /\ lastRecord(out').collected >= lastRecord(out).collected
          /\ isScanning(out')
                => /\ lastRecord(out').collected <= lastRecord(out').scanned
                   /\ lastRecord(out').collected <= targetCount]_vars

\* C25 witness: in a later category, after a failed fetch, a sub-batch that
\* is not the last of its page has completed and the progress record counts
\* more scanned than collected messages.
C25_Witness ==
    /\ analyzing /\ pc = "delay" /\ catIdx >= 2 /\ fetchFailed
    /\ isScanning(out)
    /\ lastRecord(out).scanned > lastRecord(out).collected
    /\ lastRecord(out).collected >= 2

----------------------------------------------------------------------------
(* Termination of the scan (SpecFair) *)

\* C26 as stated: an analyze request whose mailbox calls all answer leaves
\* every paging loop and ends only with its terminal record written and
\* the stream closed.
C26_ScanEndsWithTerminalRecord ==
    analyzing /\ ended => Cardinality(terminals) = 1 /\ streamState = "closed"

\* C26: an analyze request whose mailbox calls all answer eventually ends,
\* so it pages no category forever; when it has ended, it has written one
\* terminal record and closed the stream, unless the consumer has cancelled
\* the stream.
C26_ScanTerminates ==
    /\ analyzing ~> ended
    /\ [](analyzing /\ ended =>
            \/ streamState = "cancelled"
            \/ Cardinality(terminals) = 1 /\ streamState = "closed")

\* C26 witness: the scan has ended with its report after it reached the
\* target although a fetch had failed.
C26_Witness ==
    /\ analyzing /\ pc = "done" /\ streamState = "closed"
    /\ results # {}
    /\ fetchFailed
    /\ Len(allMessages) = targetCount

----------------------------------------------------------------------------
(* clusterByDomain partitions its input (SpecCluster) *)

\* the places of a message in the clusters
placesOf(m) ==
    UNION {{<<c, k>> : k \in {j \in 1..Len(clusters[c].messages) : clusters[c].messages[j] = m}} :
             c \in 1..Len(clusters)}

\* the cluster a message belongs in: an automated message in the cluster of
\* its full domain or of its root, a personal message in the cluster of its
\* exact sender address
belongsIn(m, cluster) ==
    IF Automated[m.fromEmail]
    THEN /\ "allSenders" \in DOMAIN cluster
         /\ cluster.domain \in {m.fromDomain, RootDomain[m.fromDomain]}
    ELSE /\ "allSenders" \notin DOMAIN cluster
         /\ cluster.sender = m.fromEmail

\* C27: every input message of clusterByDomain is a member of exactly one
\* output cluster, an automated message of the cluster of its full domain
\* or merged root and a personal message of the cluster of its exact sender
\* address; every member of a cluster is an input message, the count of a
\* cluster is the number of its members and the counts sum to the number of
\* input messages.
C27_ClustersPartition ==
    stage # "input" =>
        /\ \A i \in 1..Len(messages) : Cardinality(placesOf(messages[i])) = 1
        /\ \A c \in 1..Len(clusters) :
              /\ clusters[c].count = Len(clusters[c].messages)
              /\ \A k \in 1..Len(clusters[c].messages) :
                    /\ clusters[c].messages[k] \in Range(messages)
                    /\ belongsIn(clusters[c].messages[k], clusters[c])
        /\ Sum([c \in 1..Len(clusters) |-> clusters[c].count]) = Len(messages)

\* C27 witness: clusterByDomain has returned a merged root cluster of two
\* full domains and the clusters of two personal senders of one domain.
C27_Witness ==
    /\ stage = "clustered"
    /\ \E c \in 1..Len(clusters) :
          /\ "allSenders" \in DOMAIN clusters[c]
          /\ Cardinality({clusters[c].messages[k].fromDomain :
                             k \in 1..Len(clusters[c].messages)}) >= 2
    /\ \E c, d \in 1..Len(clusters) :
          /\ c # d
          /\ "allSenders" \notin DOMAIN clusters[c]
          /\ "allSenders" \notin DOMAIN clusters[d]
          /\ clusters[c].domain = clusters[d].domain

----------------------------------------------------------------------------
(* The ids of the suggestions of one report (SpecCluster) *)

\* handleDismissSuggestion: filterSuggestions.filter(s => s.id !== suggestionId)
handleDismissSuggestion(filterSuggestions, suggestionId) ==
    SelectSeq(filterSuggestions, LAMBDA s : s.id # suggestionId)

\* C28 as stated: no two suggestions of one generateFilterSuggestions call
\* have the same id, so removing a suggestion by its id removes exactly one
\* suggestion.
C28_UniqueSuggestionIds ==
    /\ \A i, j \in 1..Len(suggestions) :
          i # j => suggestions[i].id # suggestions[j].id
    /\ \A i \in 1..Len(suggestions) :
          Len(handleDismissSuggestion(suggestions, suggestions[i].id))
              = Len(suggestions) - 1

----------------------------------------------------------------------------
(* Interleaved calls of the trust-list store (SpecTrust) *)

Max(S) == CHOOSE x \in S : \A y \in S : y <= x

\* the rank at which the last call of an operation on an address returned,
\* 0 when there is no such call
lastCompleted(op, a) ==
    Max({0} \cup {storeCalls[c].completed :
                    c \in {d \in 1..Len(storeCalls) :
                            /\ storeCalls[d].req.op = op
                            /\ a \in Range(storeCalls[d].req.emails)}})

\* C29 as stated: when all addTrustedSenders and removeTrustedSender calls
\* have completed, every address added and not removed afterwards is in the
\* stored list, and every address whose removal completed after its last
\* add is absent from it.
C29_NoLostUpdate ==
    (\A c \in 1..Len(storeCalls) : storeCalls[c].pc = "done") =>
        \A a \in TrustCandidates :
            /\ lastCompleted("add", a) > lastCompleted("remove", a)
                  => a \in Range(getTrustedSenders(storeFile))
            /\ lastCompleted("remove", a) > lastCompleted("add", a)
                  => a \notin Range(getTrustedSenders(storeFile))

----------------------------------------------------------------------------
(* Overlapping fetchAnalysis calls (SpecDashboard) *)

\* call r returns on this step
returns(r) == fetches[r].at # "returned" /\ fetches'[r].at = "returned"

\* C30: a fetchAnalysis call that starts while an earlier one is in flight
\* aborts the earlier one; the displayed analysis is only ever set by the
\* latest call, which has not been aborted; and isLoading and isRefreshing
\* are only cleared by a call that returns while its controller is the
\* active one, never by an aborted call.
C30_LatestRequestOwnsDisplay ==
    [][ /\ Len(fetches') > Len(fetches) =>
             \A r \in 1..Len(fetches) :
                 fetches[r].at # "returned" => fetches'[r].aborted
        /\ analysis' # analysis =>
             /\ analysis' = Len(fetches)
             /\ ~fetches[analysis'].aborted
        /\ (isLoading /\ ~isLoading') \/ (isRefreshing /\ ~isRefreshing') =>
             \E r \in 1..Len(fetches) :
                 /\ returns(r)
                 /\ abortControllerRef = r
                 /\ ~fetches[r].aborted ]_vars

\* C30 witness: the first call was aborted by the second and has returned
\* while the second is still reading; the second has set the analysis and
\* the flags are still set.
C30_Witness ==
    /\ Len(fetches) = 2
    /\ fetches[1].aborted /\ fetches[1].at = "returned"
    /\ fetches[2].at = "read" /\ fetches[2].isBackground
    /\ analysis = 2
    /\ isLoading /\ isRefreshing
    /\ abortControllerRef = 2

============================================================================
